---- MODULE Spec2Model ----
(***************************************************************************)
(* A model of rs-ingest: the StellarCoreRunner (src/src/core_runner.rs),   *)
(* the CaptiveCore facade (src/src/captive_core.rs) and the buffered       *)
(* ledger meta reader (src/src/buffered_ledger_meta_reader.rs).            *)
(*                                                                         *)
(* A u32 value is written as its two's-complement reading: the result of   *)
(* a wrapping subtraction a - b with a < b is the negative number a - b,   *)
(* which stands for 2^32 + a - b.                                          *)
(***************************************************************************)
EXTENDS Integers, Sequences, FiniteSets, TLC

VARIABLES
    config,                 \* IngestionConfig: bounded_buffer_size, staggered
    status,                 \* StellarCoreRunner.status
    ledger_buffer_reader,   \* StellarCoreRunner.ledger_buffer_reader
    prepared,               \* StellarCoreRunner.prepared
    process,                \* StellarCoreRunner.process
    children,               \* every validator process spawned so far
    channels,               \* every delivery channel created so far
    caller,                 \* the thread that calls the facade
    started                 \* the start operation that last passed its status check,
                            \* and whether a start has been refused since

vars == <<config, status, ledger_buffer_reader, prepared, process,
          children, channels, caller, started>>

runnerVars == <<status, ledger_buffer_reader, prepared, process>>

(***************************************************************************)
(* Bounds of the model.                                                    *)
(***************************************************************************)
MaxLedger == 3      \* the ledger sequence numbers offered as from / to are 1 and MaxLedger
MaxFrames == 2      \* a child's stdout decodes to at most MaxFrames items
MaxChildren == 2    \* validator processes spawned over a run of the model
MaxBound == 1       \* bounded_buffer_size is None or 1..MaxBound
MaxStagger == 1     \* staggered is None or 1..MaxStagger
MaxRangeLedger == 6 \* SpecRanges: from and to are drawn from 0..MaxRangeLedger
PipeCapacity == 1    \* SpecWarmup: units of output a pipe holds unread
MaxOutput == 2       \* SpecWarmup: units of output a warm-up child writes
MaxWarmup == 4       \* SpecWarmup: processes spawned
MaxRemoval == 3      \* SpecRemoval: processes spawned, `rm` ones included
MaxRangeStagger == 3 \* SpecRanges: staggered is drawn from 1..MaxRangeStagger

Ledgers == {1, MaxLedger}

\* The ranges asked for: one that is longer than one ledger, one of a single
\* ledger, one whose ends are swapped.
Ranges == {rg \in Ledgers \X Ledgers : rg[1] = MaxLedger \/ rg[2] = MaxLedger}

\* Option<usize> / Option<u32> / Option<Child>: 0 stands for None.
None == 0

(***************************************************************************)
(* Frames and MetaResults.  A frame of the child's stdout is what the      *)
(* framed XDR iterator yields for it: a ledger sequence number when it     *)
(* decodes, BadFrame when it does not.                                     *)
(***************************************************************************)
BadFrame == 0
FrameVals == {BadFrame, 1}

RECURSIVE SeqsUpTo(_, _)
SeqsUpTo(S, n) ==
    IF n = 0 THEN {<<>>}
    ELSE LET shorter == SeqsUpTo(S, n - 1)
         IN  shorter \cup {Append(s, x) : s \in shorter, x \in S}

\* What a child's stdout can decode to.
Streams == SeqsUpTo(FrameVals, MaxFrames)

\* The match arms of the drain loops: Ok(meta) / Err(_).
MetaOf(frame) ==
    IF frame = BadFrame
    THEN [ledger_close_meta |-> None, err |-> "ReadXdrNext"]
    ELSE [ledger_close_meta |-> frame, err |-> "None"]

MetaSeq(frames) == [i \in 1..Len(frames) |-> MetaOf(frames[i])]

\* A LedgerCloseMeta is more than its sequence number: metas 2n - 1 and 2n
\* are two different metas whose header carries ledger_seq n.
MaxMeta == 2
MaxPrepared == 3
LedgerMetas == 1..MaxMeta

\* v1.ledger_header.header.ledger_seq / v0.ledger_header.header.ledger_seq
ledger_seq(meta) == (meta + 1) \div 2

Sequences == 1..(ledger_seq(MaxMeta) + 1)

\* What a child's stdout can decode to, metas told apart.
MetaStreams == SeqsUpTo({BadFrame} \cup LedgerMetas, MaxPrepared)

(***************************************************************************)
(* BufferedLedgerMetaReader values held by the runner.                     *)
(***************************************************************************)
\* Option<BufferedLedgerMetaReader>::None
\* has_cached: cached.is_some(); chan: the channel of transmitter, if any.
NoReader == [mode |-> "None", cloned |-> FALSE, chan |-> None, has_cached |-> FALSE,
             cached |-> <<>>]

\* A constructor that takes whatever sender it is given, in either mode.
NewReaderKeepsSender(mode, transmitter) ==
    [res |-> "Ok",
     reader |-> [mode |-> mode, cloned |-> FALSE, chan |-> transmitter,
                 has_cached |-> mode = "SingleThread", cached |-> <<>>]]

\* BufferedLedgerMetaReader::new.  transmitter is a channel id or None.
\* SingleThread gets an empty buffer and no sender, MultiThread its sender.
NewReader(mode, transmitter) ==
    IF mode = "SingleThread"
    THEN IF transmitter # None
         THEN [res |-> "UnusedTransmitter", reader |-> NoReader]
         ELSE [res |-> "Ok",
               reader |-> [mode |-> mode, cloned |-> FALSE, chan |-> None,
                           has_cached |-> TRUE, cached |-> <<>>]]
    ELSE IF transmitter = None
         THEN [res |-> "MissingTransmitter", reader |-> NoReader]
         ELSE [res |-> "Ok",
               reader |-> [mode |-> mode, cloned |-> FALSE, chan |-> transmitter,
                           has_cached |-> FALSE, cached |-> <<>>]]

\* impl Clone for BufferedLedgerMetaReader: a mode-only stub, no sinks.
CloneReader(r) ==
    [mode |-> r.mode, cloned |-> TRUE, chan |-> None, has_cached |-> FALSE,
     cached |-> <<>>]

\* single_thread_read_ledger_meta_from_pipe: one MetaResult pushed per item
\* the iterator yields, until the iterator ends.
\* A drain that gives up at the first item that does not decode.
single_thread_read_until_error(r, frames) ==
    LET bad == {i \in 1..Len(frames) : frames[i] = BadFrame}
        last == IF bad = {} THEN Len(frames)
                ELSE CHOOSE i \in bad : \A j \in bad : i <= j
    IN  IF r.mode # "SingleThread"
        THEN [res |-> "WrongModeMultiThread", reader |-> r, read |-> 0]
        ELSE IF r.cloned THEN [res |-> "UsedClonedBufreader", reader |-> r, read |-> 0]
        ELSE [res |-> "Ok",
              reader |-> [r EXCEPT !.cached = @ \o MetaSeq(SubSeq(frames, 1, last))],
              read |-> last]

\* read: the number of items taken from the iterator.
single_thread_read_ledger_meta_from_pipe(r, frames) ==
    IF r.mode # "SingleThread"
    THEN [res |-> "WrongModeMultiThread", reader |-> r, read |-> 0]
    ELSE IF r.cloned THEN [res |-> "UsedClonedBufreader", reader |-> r, read |-> 0]
    ELSE [res |-> "Ok", reader |-> [r EXCEPT !.cached = @ \o MetaSeq(frames)],
          read |-> Len(frames)]

\* multi_thread_read_ledger_meta_from_pipe, run to its end on a channel that
\* takes every item: sent is what the transmitter was given, in order.
multi_thread_read_ledger_meta_from_pipe(r, frames) ==
    IF r.mode # "MultiThread"
    THEN [res |-> "WrongModeSingleThread", reader |-> r, read |-> 0, sent |-> <<>>]
    ELSE IF r.cloned
    THEN [res |-> "UsedClonedBufreader", reader |-> r, read |-> 0, sent |-> <<>>]
    ELSE [res |-> "Ok", reader |-> r, read |-> Len(frames), sent |-> MetaSeq(frames)]

\* A clear_buffered that returns Ok and leaves the buffer as it is.
clear_buffered_keeps(r) ==
    IF r.mode # "SingleThread" THEN [res |-> "WrongModeMultiThread", reader |-> r]
    ELSE IF r.cloned THEN [res |-> "UsedClonedBufreader", reader |-> r]
    ELSE [res |-> "Ok", reader |-> r]

\* clear_buffered: a new empty buffer in place of the old one.
clear_buffered(r) ==
    IF r.mode # "SingleThread" THEN [res |-> "WrongModeMultiThread", reader |-> r]
    ELSE IF r.cloned THEN [res |-> "UsedClonedBufreader", reader |-> r]
    ELSE [res |-> "Ok", reader |-> [r EXCEPT !.has_cached = TRUE, !.cached = <<>>]]

\* A read_meta that does not look at the mode.
read_meta_any_mode(r) ==
    IF r.cloned THEN [res |-> "UsedClonedBufreader", v |-> <<>>]
    ELSE [res |-> "Ok", v |-> r.cached]

\* read_meta: a copy of the buffer.
read_meta(r) ==
    IF r.mode # "SingleThread" THEN [res |-> "WrongModeMultiThread", v |-> <<>>]
    ELSE IF r.cloned THEN [res |-> "UsedClonedBufreader", v |-> <<>>]
    ELSE [res |-> "Ok", v |-> r.cached]

\* Option<Vec<MetaResult>>
NoPrepared == [some |-> FALSE, v |-> <<>>]

(***************************************************************************)
(* The runner as a value, so that a handler is a function of it.           *)
(***************************************************************************)
Runner ==
    [status |-> status, reader |-> ledger_buffer_reader,
     prepared |-> prepared, process |-> process]

SetRunner(r) ==
    /\ status' = r.status
    /\ ledger_buffer_reader' = r.reader
    /\ prepared' = r.prepared
    /\ process' = r.process

\* thread_mode: the mode of the held reader, "None" when none is held.
thread_mode(r) == r.reader.mode

\* A kill_process that does not look at staggered.
kill_process_strict(r, killOk) ==
    IF r.process # None
    THEN IF killOk
         THEN [r |-> [r EXCEPT !.process = None], res |-> "Ok", killed |-> r.process]
         ELSE [r |-> r, res |-> "Process", killed |-> None]
    ELSE [r |-> r, res |-> "ProcessNotFound", killed |-> None]

\* kill_process.  killOk: whether Child::kill succeeds.
kill_process(r, killOk) ==
    IF r.process # None
    THEN IF killOk
         THEN [r |-> [r EXCEPT !.process = None], res |-> "Ok", killed |-> r.process]
         ELSE [r |-> r, res |-> "Process", killed |-> None]
    ELSE IF config.staggered # None
         THEN [r |-> r, res |-> "Ok", killed |-> None]
         ELSE [r |-> r, res |-> "ProcessNotFound", killed |-> None]

\* A reset that drops the prepared set with the reader.
reset_bufreader_and_prepared(r) ==
    [r EXCEPT !.reader = [mode |-> "None", cloned |-> FALSE, chan |-> 0,
                          has_cached |-> FALSE, cached |-> <<>>],
              !.prepared = [some |-> FALSE, v |-> <<>>]]

\* reset_bufreader
reset_bufreader(r) == [r EXCEPT !.reader = NoReader]

\* A load_prepared that adds to the prepared set instead of replacing it.
load_prepared_appending(r) ==
    LET m == read_meta(r.reader)
    IN  IF m.res = "Ok"
        THEN [r |-> [r EXCEPT !.prepared = [some |-> TRUE, v |-> @.v \o m.v]],
              res |-> "Ok"]
        ELSE [r |-> r, res |-> m.res]

\* load_prepared
load_prepared(r) ==
    LET m == read_meta(r.reader)
    IN  IF m.res = "Ok"
        THEN [r |-> [r EXCEPT !.prepared = [some |-> TRUE, v |-> m.v]], res |-> "Ok"]
        ELSE [r |-> r, res |-> m.res]

\* A close_runner that kills, cleans and resets but leaves the status.
close_runner_keeps_status(r, killOk, rmOk) ==
    IF r.status = "Closed"
    THEN [r |-> r, res |-> "AlreadyRunning", killed |-> None]
    ELSE LET k == kill_process(r, killOk)
         IN  IF k.res # "Ok" THEN k
             ELSE IF ~rmOk THEN [k EXCEPT !.res = "Process"]
             ELSE [k EXCEPT !.r = reset_bufreader(k.r)]

\* close_runner.  rmOk: whether spawning `rm -rf buckets` succeeds.
close_runner(r, killOk, rmOk) ==
    IF r.status = "Closed"
    THEN [r |-> r, res |-> "AlreadyRunning", killed |-> None]
    ELSE LET k == kill_process([r EXCEPT !.status = "Closed"], killOk)
         IN  IF k.res # "Ok" THEN k
             ELSE IF ~rmOk THEN [k EXCEPT !.res = "Process"]
             ELSE [k EXCEPT !.r = reset_bufreader(k.r)]

(***************************************************************************)
(* Child processes.  stream is what has been read from the child's stdout  *)
(* so far, as the items the frame iterator yielded for it.  pc is the      *)
(* place of the thread that drains the pipe: "none" (no thread), "read",   *)
(* "send", "done", "panicked".                                             *)
(***************************************************************************)
NewChild(kind, chan, pc) ==
    [kind |-> kind, st |-> "running", stream |-> <<>>, chan |-> chan, pc |-> pc]

Live(c) == children[c].st = "running"
LiveChildren == {c \in 1..Len(children) : Live(c)}

\* Child::kill on a running child ends it.
KillChild(cs, c) ==
    IF c = None THEN cs
    ELSE [cs EXCEPT ![c].st = IF @ = "running" THEN "killed" ELSE @]

(***************************************************************************)
(* Delivery channels.  bound is None for an unbounded channel.  sup is the *)
(* supervisor that feeds the channel, if any: the thread of a staggered    *)
(* catchup, or the task of an async catchup, which drains each child       *)
(* itself (inline) instead of joining a thread that does.                  *)
(***************************************************************************)
NoSupervisor == [st |-> "none", ranges |-> <<>>, i |-> 0, cur |-> None,
                 inline |-> FALSE, asked |-> <<>>]

\* asked: the from and to of the call that started the supervisor.
Supervisor(ranges, inline, from, to) ==
    [st |-> "next", ranges |-> ranges, i |-> 0, cur |-> None, inline |-> inline,
     asked |-> <<from, to>>]

NewChannel(bound, sup) ==
    [bound |-> bound, queue |-> <<>>, rx |-> "held", received |-> <<>>, sup |-> sup]

\* The senders of channel ch that are still owned by someone: the readers of
\* the draining threads, the supervisor's clone, a reader held by the runner.
Senders(ch) ==
    Cardinality({c \in 1..Len(children) :
                    children[c].chan = ch /\ children[c].pc \in {"read", "send"}})
    + (IF channels[ch].sup.st \in {"next", "join"} THEN 1 ELSE 0)
    + (IF ledger_buffer_reader.chan = ch THEN 1 ELSE 0)

\* What the receiver observes as a closed channel: nothing queued, no sender.
Disconnected(ch) == channels[ch].queue = <<>> /\ Senders(ch) = 0

\* Children a running supervisor has still to spawn.
Unspawned(chan) ==
    IF chan.sup.st = "next" THEN Len(chan.sup.ranges) - chan.sup.i
    ELSE IF chan.sup.st = "join" THEN Len(chan.sup.ranges) - chan.sup.i - 1
    ELSE 0

RECURSIVE SumUnspawned(_)
SumUnspawned(chs) ==
    IF chs = <<>> THEN 0 ELSE Unspawned(Head(chs)) + SumUnspawned(Tail(chs))

\* No more than limit children, the ones that supervisors have yet to spawn
\* counted in, and no more channels than that.
Room(cs, chs, limit) ==
    /\ Len(cs) + SumUnspawned(chs) <= limit
    /\ Len(chs) <= limit

(***************************************************************************)
(* What the program can no longer reach is not kept.  Once the receiver of *)
(* a channel is dropped nothing of what it carried matters; a process that *)
(* is dead and whose pipe nobody drains leaves nothing behind.             *)
(***************************************************************************)
GoneChild == [kind |-> "gone", st |-> "exited", stream |-> <<>>, chan |-> None,
              pc |-> "none"]

Settle(cs, chs) ==
    [children |-> [c \in 1..Len(cs) |->
                      IF /\ cs[c].st # "running"
                         /\ cs[c].pc \notin {"read", "send"}
                         /\ IF cs[c].chan = None THEN TRUE
                            ELSE chs[cs[c].chan].rx = "dropped"
                      THEN GoneChild ELSE cs[c]],
     channels |-> [ch \in 1..Len(chs) |->
                      IF chs[ch].rx = "dropped"
                      THEN [bound |-> None, queue |-> <<>>, rx |-> "dropped",
                            received |-> <<>>,
                            sup |-> IF chs[ch].sup.st \in {"next", "join"}
                                    THEN chs[ch].sup ELSE NoSupervisor]
                      ELSE chs[ch]]]

SetWorld(cs, chs) ==
    /\ children' = Settle(cs, chs).children
    /\ channels' = Settle(cs, chs).channels

\* The processes and channels a start operation finds: the receiver of a
\* channel that is closed and empty has nothing more to receive.
Found ==
    IF status # "Closed" THEN [children |-> children, channels |-> channels]
    ELSE Settle(children,
                [ch \in 1..Len(channels) |->
                    IF Disconnected(ch)
                    THEN [channels[ch] EXCEPT !.rx = "dropped"] ELSE channels[ch]])

(***************************************************************************)
(* catchup_single_thread, reached through prepare_ledgers_single_thread.   *)
(* spawnOk: Command::spawn succeeds; out: what the child's stdout decodes  *)
(* to until it closes; overflowChecks: the build panics on u32 overflow.   *)
(***************************************************************************)
catchup_single_thread(r, cs, from, to, overflowChecks, spawnOk, out, killOk, rmOk) ==
    IF r.status # "Closed"
    THEN [r |-> r, children |-> cs, res |-> "AlreadyRunning"]
    ELSE
    LET r1 == [r EXCEPT !.status = "RunningOffline"]
        c == Len(cs) + 1
        child == [NewChild("catchup", None, "none")
                      EXCEPT !.st = "exited", !.stream = out]
        r2 == [r1 EXCEPT !.process = c]
        made == NewReader("SingleThread", None)
        r3 == [r2 EXCEPT !.reader = made.reader]
        drained == single_thread_read_ledger_meta_from_pipe(r3.reader, out)
        r4 == [r3 EXCEPT !.reader = drained.reader]
        loaded == load_prepared(r4)
        closed == close_runner(loaded.r, killOk, rmOk)
    IN  IF from > to /\ overflowChecks
        THEN [r |-> r1, children |-> cs, res |-> "panic"]
        ELSE IF ~spawnOk
        THEN [r |-> r1, children |-> cs, res |-> "CliExec"]
        ELSE IF made.res # "Ok"
        THEN [r |-> r2, children |-> Append(cs, [child EXCEPT !.st = "running",
                                                                !.stream = <<>>]),
              res |-> made.res]
        ELSE IF drained.res # "Ok"
        THEN [r |-> r3, children |-> Append(cs, [child EXCEPT !.st = "running",
                                                                !.stream = <<>>]),
              res |-> drained.res]
        ELSE IF loaded.res # "Ok"
        THEN [r |-> r4, children |-> Append(cs, child), res |-> loaded.res]
        ELSE [r |-> closed.r, children |-> Append(cs, child), res |-> closed.res]

\* What a facade call leaves.  A panic unwinds the calling thread, and the
\* program is followed no further.
Outcome(op, o, chs) ==
    /\ SetRunner(o.r)
    /\ SetWorld(o.children, chs)
    /\ caller' = IF o.res = "panic" THEN "panicked" ELSE caller
    /\ started' = IF o.res = "AlreadyRunning" THEN [started EXCEPT !.refused = TRUE]
                  ELSE [op |-> op, ok |-> o.res = "Ok", refused |-> FALSE]

PrepareSingle(from, to, outs) ==
    /\ caller = "alive"
    /\ \E overflowChecks, spawnOk, killOk, rmOk \in BOOLEAN, out \in outs :
          \* one choice stands for all where the choices are not looked at
          /\ status # "Closed" => overflowChecks /\ spawnOk /\ killOk /\ rmOk /\ out = <<>>
          /\ from <= to => overflowChecks
          /\ ~spawnOk => killOk /\ rmOk /\ out = <<>>
          /\ ~killOk => rmOk
          /\ LET o == catchup_single_thread(Runner, Found.children, from, to,
                                            overflowChecks, spawnOk, out, killOk, rmOk)
             IN  /\ Room(o.children, channels, MaxChildren)
                 /\ Outcome("prepare_ledgers_single_thread", o, Found.channels)
    /\ UNCHANGED config

(***************************************************************************)
(* The staggered ranges of catchup_multi_thread.                           *)
(***************************************************************************)
Min(a, b) == IF a <= b THEN a ELSE b

\* The number of sub-catchups as the specification's section 3 words it.
stagger_times_of_amount(from, to, stagger_every) == (to - from + 1) \div stagger_every

\* stagger_times = (to - from) / stagger_every
stagger_times(from, to, stagger_every) == (to - from) \div stagger_every

\* A step rounded up instead of down.
stagger_step_up(from, to, times) == (to - from + times) \div times

\* A step taken from the span to - from, not from the amount of ledgers.
stagger_step_of_span(from, to, times) == (to - from) \div times

\* step = (to - from + 1) / stagger_times
stagger_step(from, to, times) == (to - from + 1) \div times

\* (0..stagger_times).map(|i| start..=end).collect()
\* Ranges whose ends are one ledger too far: each shares a ledger with the
\* next.
stagger_ranges_overlapping(from, to, times) ==
    LET step == stagger_step(from, to, times)
    IN  [n \in 1..times |->
            LET start == from + (n - 1) * step
            IN  [start |-> start, end |-> Min(start + step, to)]]

stagger_ranges(from, to, times) ==
    LET step == stagger_step(from, to, times)
    IN  [n \in 1..times |->
            LET start == from + (n - 1) * step
            IN  [start |-> start, end |-> Min(start + step - 1, to)]]

\* format!("{}/{}", range.end(), range.end() - range.start() + 1): the
\* catchup a segment asks of its child, DESTINATION-LEDGER/LEDGER-COUNT.
segment_catchup(range) == [to |-> range.end, count |-> range.end - range.start + 1]

\* The ledgers a catchup to/count replays.
Replayed(catchup) == (catchup.to - catchup.count + 1)..catchup.to

(***************************************************************************)
(* run_core_cli (the method): spawn, and hold the child in self.process.   *)
(***************************************************************************)
run_core_cli(r, cs, child, spawnOk) ==
    IF spawnOk
    THEN [r |-> [r EXCEPT !.process = Len(cs) + 1], children |-> Append(cs, child),
          res |-> "Ok"]
    ELSE [r |-> r, children |-> cs, res |-> "CliExec"]

\* start_and_transmitter / start_and_sync_transmitter: a channel, a
\* MultiThread reader that owns its sender and the pipe of child c, a stub
\* of it kept by the runner, and a thread that drains the pipe.
start_and_transmitter(r, cs, chs, c, bound) ==
    LET ch == Len(chs) + 1
        made == NewReader("MultiThread", ch)
    IN  IF made.res # "Ok"
        THEN [r |-> r, children |-> cs, channels |-> chs, res |-> made.res]
        ELSE [r |-> [r EXCEPT !.reader = CloneReader(made.reader)],
              children |-> [cs EXCEPT ![c].chan = ch, ![c].pc = "read"],
              channels |-> Append(chs, NewChannel(bound, NoSupervisor)),
              res |-> "Ok"]

\* The non-staggered body of catchup_multi_thread.
catchup_plain(r, cs, chs, from, to, overflowChecks, spawnOk) ==
    LET spawned == run_core_cli(r, cs,
                       NewChild("catchup", None, "none"), spawnOk)
    IN  IF from > to /\ overflowChecks
        THEN [r |-> r, children |-> cs, channels |-> chs, res |-> "panic"]
        ELSE IF spawned.res # "Ok"
        THEN [r |-> r, children |-> cs, channels |-> chs, res |-> spawned.res]
        ELSE start_and_transmitter(spawned.r, spawned.children, chs,
                                   spawned.r.process, config.bounded_buffer_size)

\* catchup_multi_thread without its status check: what C1 rules out.
catchup_multi_thread_unguarded(r, cs, chs, from, to, overflowChecks, spawnOk) ==
    LET r1 == [r EXCEPT !.status = "RunningOffline"]
        times == stagger_times(from, to, config.staggered)
        sup == Supervisor(stagger_ranges(from, to, times), FALSE, from, to)
    IN  IF config.staggered = None
        THEN catchup_plain(r1, cs, chs, from, to, overflowChecks, spawnOk)
        ELSE IF from > to
        THEN [r |-> r1, children |-> cs, channels |-> chs, res |-> "panic"]
        ELSE IF times <= 1
        THEN catchup_plain(r1, cs, chs, from, to, overflowChecks, spawnOk)
        ELSE [r |-> r1, children |-> cs,
              channels |-> Append(chs, NewChannel(config.bounded_buffer_size, sup)),
              res |-> "Ok"]

\* A catchup_multi_thread that takes the single catchup only when no segment
\* at all would be made.
catchup_multi_thread_staggers_one(r, cs, chs, from, to, overflowChecks, spawnOk) ==
    IF r.status # "Closed"
    THEN [r |-> r, children |-> cs, channels |-> chs, res |-> "AlreadyRunning"]
    ELSE
    LET r1 == [r EXCEPT !.status = "RunningOffline"]
        times == stagger_times(from, to, config.staggered)
        sup == Supervisor(stagger_ranges(from, to, times), FALSE, from, to)
    IN  IF config.staggered = None
        THEN catchup_plain(r1, cs, chs, from, to, overflowChecks, spawnOk)
        ELSE IF from > to
        THEN [r |-> r1, children |-> cs, channels |-> chs, res |-> "panic"]
        ELSE IF times < 1
        THEN catchup_plain(r1, cs, chs, from, to, overflowChecks, spawnOk)
        ELSE [r |-> r1, children |-> cs,
              channels |-> Append(chs, NewChannel(config.bounded_buffer_size, sup)),
              res |-> "Ok"]

\* format!("{}/{}", to, to - from + 1): the catchup asked of the one child of
\* a range that is not split.
whole_catchup(from, to) == [to |-> to, count |-> to - from + 1]

\* catchup_multi_thread.  With from > to the subtraction to - from panics in
\* a build with overflow checks; without them stagger_times is of the order
\* of 2^32 and collecting that many ranges aborts the process.
catchup_multi_thread(r, cs, chs, from, to, overflowChecks, spawnOk) ==
    IF r.status # "Closed"
    THEN [r |-> r, children |-> cs, channels |-> chs, res |-> "AlreadyRunning"]
    ELSE
    LET r1 == [r EXCEPT !.status = "RunningOffline"]
        times == stagger_times(from, to, config.staggered)
        sup == Supervisor(stagger_ranges(from, to, times), FALSE, from, to)
    IN  IF config.staggered = None
        THEN catchup_plain(r1, cs, chs, from, to, overflowChecks, spawnOk)
        ELSE IF from > to
        THEN [r |-> r1, children |-> cs, channels |-> chs, res |-> "panic"]
        ELSE IF times <= 1
        THEN catchup_plain(r1, cs, chs, from, to, overflowChecks, spawnOk)
        ELSE [r |-> r1, children |-> cs,
              channels |-> Append(chs, NewChannel(config.bounded_buffer_size, sup)),
              res |-> "Ok"]

OutcomeCh(op, o, limit) ==
    /\ Outcome(op, o, o.channels)
    /\ Room(o.children, o.channels, limit)

PrepareMulti(from, to, limit) ==
    /\ caller = "alive"
    /\ \E overflowChecks, spawnOk \in BOOLEAN :
          /\ status # "Closed" => overflowChecks /\ spawnOk
          /\ from <= to => overflowChecks
          /\ OutcomeCh("prepare_ledgers_multi_thread",
                       catchup_multi_thread(Runner, Found.children, Found.channels,
                                            from, to, overflowChecks, spawnOk),
                       limit)
    /\ UNCHANGED config

(***************************************************************************)
(* run (online), reached through start_online_no_range.  warmOk / spawnOk: *)
(* whether the warm-up and the `run` invocation can be spawned.  The error *)
(* of the warm-up spawn is dropped and self.process is waited on whatever  *)
(* it holds: unwrap panics when it holds nothing.                          *)
(***************************************************************************)
run(r, cs, chs, warmOk, spawnOk) ==
    IF r.status # "Closed"
    THEN [r |-> r, children |-> cs, channels |-> chs, res |-> "AlreadyRunning"]
    ELSE
    LET r1 == [r EXCEPT !.status = "RunningOnline"]
        warm == run_core_cli(r1, cs, NewChild("warmup", None, "none"), warmOk)
        \* wait(): returns once the held process has exited
        waited == [warm.children EXCEPT ![warm.r.process].st =
                                           IF @ = "running" THEN "exited" ELSE @]
        spawned == run_core_cli(warm.r, waited,
                                NewChild("run", None, "none"), spawnOk)
    IN  IF warm.r.process = None
        THEN [r |-> r1, children |-> cs, channels |-> chs, res |-> "panic"]
        ELSE IF spawned.res # "Ok"
        THEN [r |-> warm.r, children |-> waited, channels |-> chs, res |-> spawned.res]
        ELSE start_and_transmitter(spawned.r, spawned.children, chs,
                                   spawned.r.process, config.bounded_buffer_size)

\* wait() on a process left over from an earlier start blocks while it runs.
WaitReturns(warmOk) ==
    IF warmOk \/ process = None THEN TRUE ELSE children[process].st # "running"

StartOnline ==
    /\ caller = "alive"
    /\ \E warmOk, spawnOk \in BOOLEAN :
          /\ status = "Closed" => WaitReturns(warmOk)
          /\ status # "Closed" => warmOk /\ spawnOk
          /\ OutcomeCh("start_online_no_range",
                       run(Runner, Found.children, Found.channels, warmOk, spawnOk),
                       MaxChildren)
    /\ UNCHANGED config

(***************************************************************************)
(* The async entry points.  The function that drains a pipe in a task is   *)
(* not among the sources; it is taken from the specification: the checks   *)
(* of the other read operations, then the same loop.                       *)
(***************************************************************************)
async_multi_thread_read_ledger_meta_from_pipe(r) ==
    IF r.mode # "MultiThread" THEN "WrongModeSingleThread"
    ELSE IF r.cloned THEN "UsedClonedBufreader"
    ELSE "Ok"

\* start_and_transmitter_async with inner_start_from_pipe: an unbounded
\* channel, a MultiThread reader that owns its sender and the pipe of child
\* c and is kept by the runner, and a task that reads on a clone of it.
start_and_transmitter_async(r, cs, chs, c) ==
    LET ch == Len(chs) + 1
        made == NewReader("MultiThread", ch)
        task == async_multi_thread_read_ledger_meta_from_pipe(CloneReader(made.reader))
    IN  IF made.res # "Ok"
        THEN [r |-> r, children |-> cs, channels |-> chs, res |-> made.res]
        ELSE [r |-> [r EXCEPT !.reader = made.reader],
              children |-> [cs EXCEPT ![c].chan = ch,
                                      ![c].pc = IF task = "Ok" THEN "read"
                                                ELSE "panicked"],
              channels |-> Append(chs, NewChannel(None, NoSupervisor)),
              res |-> "Ok"]

\* async_catchup_multi_thread.  Staggered, it is catchup_multi_thread with
\* an unbounded channel and a task for a supervisor; not staggered, a task
\* runs one child that the runner does not hold, and computes the count
\* to - from + 1 itself.
async_catchup_multi_thread(r, cs, chs, from, to, overflowChecks, spawnOk) ==
    IF r.status # "Closed"
    THEN [r |-> r, children |-> cs, channels |-> chs, res |-> "AlreadyRunning"]
    ELSE
    LET r1 == [r EXCEPT !.status = "RunningOffline"]
        times == stagger_times(from, to, config.staggered)
        spawned == run_core_cli(r1, cs, NewChild("catchup", None, "none"), spawnOk)
        task == IF config.staggered = None
                THEN IF from > to /\ overflowChecks
                     THEN [NoSupervisor EXCEPT !.st = "failed"]
                     ELSE Supervisor(<<[start |-> from, end |-> to]>>, TRUE, from, to)
                ELSE Supervisor(stagger_ranges(from, to, times), TRUE, from, to)
    IN  IF config.staggered # None /\ from > to
        THEN [r |-> r1, children |-> cs, channels |-> chs, res |-> "panic"]
        ELSE IF config.staggered # None /\ times <= 1
        THEN IF spawned.res # "Ok"
             THEN [r |-> r1, children |-> cs, channels |-> chs, res |-> spawned.res]
             ELSE start_and_transmitter_async(spawned.r, spawned.children, chs,
                                              spawned.r.process)
        ELSE [r |-> r1, children |-> cs,
              channels |-> Append(chs, NewChannel(None, task)), res |-> "Ok"]

PrepareAsync(from, to, limit) ==
    /\ caller = "alive"
    /\ \E overflowChecks, spawnOk \in BOOLEAN :
          /\ status # "Closed" => overflowChecks /\ spawnOk
          /\ from <= to => overflowChecks
          /\ OutcomeCh("async_prepare_ledgers",
                       async_catchup_multi_thread(Runner, Found.children,
                           Found.channels, from, to, overflowChecks, spawnOk),
                       limit)
    /\ UNCHANGED config

\* run_async: run with start_and_transmitter_async.
run_async(r, cs, chs, warmOk, spawnOk) ==
    IF r.status # "Closed"
    THEN [r |-> r, children |-> cs, channels |-> chs, res |-> "AlreadyRunning"]
    ELSE
    LET r1 == [r EXCEPT !.status = "RunningOnline"]
        warm == run_core_cli(r1, cs, NewChild("warmup", None, "none"), warmOk)
        waited == [warm.children EXCEPT ![warm.r.process].st =
                                           IF @ = "running" THEN "exited" ELSE @]
        spawned == run_core_cli(warm.r, waited,
                                NewChild("run", None, "none"), spawnOk)
    IN  IF warm.r.process = None
        THEN [r |-> r1, children |-> cs, channels |-> chs, res |-> "panic"]
        ELSE IF spawned.res # "Ok"
        THEN [r |-> warm.r, children |-> waited, channels |-> chs, res |-> spawned.res]
        ELSE start_and_transmitter_async(spawned.r, spawned.children, chs,
                                         spawned.r.process)

StartOnlineAsync ==
    /\ caller = "alive"
    /\ \E warmOk, spawnOk \in BOOLEAN :
          /\ status = "Closed" => WaitReturns(warmOk)
          /\ status # "Closed" => warmOk /\ spawnOk
          /\ OutcomeCh("async_start_online_no_range",
                       run_async(Runner, Found.children, Found.channels,
                                 warmOk, spawnOk),
                       MaxChildren)
    /\ UNCHANGED config

(***************************************************************************)
(* close_runner_process of the facade.                                     *)
(***************************************************************************)
close_runner_process(r, killOk, rmOk) ==
    IF thread_mode(r) = "SingleThread"
    THEN [r |-> r, res |-> "CloseOnSingleThread", killed |-> None]
    ELSE close_runner(r, killOk, rmOk)

\* read_prepared: self.prepared.clone().unwrap()
read_prepared(r) ==
    IF r.prepared.some THEN [res |-> "Ok", v |-> r.prepared.v]
    ELSE [res |-> "panic", v |-> <<>>]

\* The loop of get_ledger over the records from index i on.
RECURSIVE get_ledger_from(_, _, _)
get_ledger_from(v, i, sequence) ==
    IF i > Len(v) THEN [res |-> "LedgerNotFound", meta |-> None]
    ELSE IF /\ v[i].ledger_close_meta # None
            /\ ledger_seq(v[i].ledger_close_meta) = sequence
         THEN [res |-> "Ok", meta |-> v[i].ledger_close_meta]
         ELSE get_ledger_from(v, i + 1, sequence)

\* A get_ledger that keeps looking after a match and returns the last one.
RECURSIVE get_ledger_last_from(_, _, _)
get_ledger_last_from(v, i, sequence) ==
    IF i = 0 THEN [res |-> "LedgerNotFound", meta |-> None]
    ELSE IF /\ v[i].ledger_close_meta # None
            /\ ledger_seq(v[i].ledger_close_meta) = sequence
         THEN [res |-> "Ok", meta |-> v[i].ledger_close_meta]
         ELSE get_ledger_last_from(v, i - 1, sequence)

get_ledger_last(r, sequence) ==
    IF r.prepared.some THEN get_ledger_last_from(r.prepared.v, Len(r.prepared.v), sequence)
    ELSE [res |-> "panic", meta |-> None]

\* get_ledger
get_ledger(r, sequence) ==
    LET prepared_ == read_prepared(r)
    IN  IF prepared_.res = "panic" THEN [res |-> "panic", meta |-> None]
        ELSE get_ledger_from(prepared_.v, 1, sequence)

GetLedger(sequence) ==
    /\ caller = "alive"
    /\ caller' = IF get_ledger(Runner, sequence).res = "panic" THEN "panicked"
                 ELSE caller
    /\ UNCHANGED <<config, runnerVars, children, channels, started>>

\* Child::kill can fail only on a child that is no longer running.
KillCanFail == IF process = None THEN FALSE ELSE children[process].st # "running"

Close ==
    /\ caller = "alive"
    /\ \E killOk, rmOk \in BOOLEAN :
          LET o == close_runner_process(Runner, killOk, rmOk)
          IN  /\ ~killOk => KillCanFail
              /\ SetRunner(o.r)
              /\ SetWorld(KillChild(children, o.killed), channels)
    /\ UNCHANGED <<config, caller, started>>

(***************************************************************************)
(* The validator processes: a running child may exit at any time.          *)
(***************************************************************************)
ChildExit(c) ==
    /\ caller = "alive"
    /\ children[c].st = "running"
    /\ SetWorld([children EXCEPT ![c].st = "exited"], channels)
    /\ UNCHANGED <<config, runnerVars, caller, started>>

(***************************************************************************)
(* multi_thread_read_ledger_meta_from_pipe, run by the draining thread of  *)
(* child c: take the next item of the frame iterator, send its MetaResult. *)
(***************************************************************************)
\* The iterator's next(): an item the child wrote (a frame cut short by a
\* kill decodes to BadFrame), or the end once the child is gone and the pipe
\* is empty.
ProducerNext(c, frame) ==
    /\ caller = "alive"
    /\ children[c].pc = "read"
    /\ Len(children[c].stream) < MaxFrames
    /\ children' = [children EXCEPT ![c].stream = Append(@, frame), ![c].pc = "send"]
    /\ UNCHANGED <<config, runnerVars, channels, caller, started>>

\* A draining thread that marks the runner Closed when its iterator ends.
ProducerEndCloses(c) ==
    /\ caller = "alive"
    /\ children[c].pc = "read"
    /\ children[c].st # "running"
    /\ SetWorld([children EXCEPT ![c].pc = "done"], channels)
    /\ status' = "Closed"
    /\ UNCHANGED <<config, ledger_buffer_reader, prepared, process, caller, started>>

\* An iterator that ends only when the child exits by itself: the pipe of a
\* killed child stays open.
ProducerEndOnExitOnly(c) ==
    /\ caller = "alive"
    /\ children[c].pc = "read"
    /\ children[c].st = "exited"
    /\ SetWorld([children EXCEPT ![c].pc = "done"], channels)
    /\ UNCHANGED <<config, runnerVars, caller, started>>

ProducerEnd(c) ==
    /\ caller = "alive"
    /\ children[c].pc = "read"
    /\ children[c].st # "running"
    /\ SetWorld([children EXCEPT ![c].pc = "done"], channels)
    /\ UNCHANGED <<config, runnerVars, caller, started>>

Held(c) == MetaOf(children[c].stream[Len(children[c].stream)])

\* A send that puts the item ahead of the ones queued.
multi_thread_send_ahead(chan, meta) == [chan EXCEPT !.queue = <<meta>> \o @]

\* transmitter.send(meta_obj).unwrap(): blocks while a bounded channel is
\* full, panics once the receiver is gone
multi_thread_send(chan, meta) == [chan EXCEPT !.queue = Append(@, meta)]

\* A channel whose send never waits.
HasRoomAlways(chan) == chan.bound = None \/ Len(chan.queue) >= 0

HasRoom(chan) == IF chan.bound = None THEN TRUE ELSE Len(chan.queue) < chan.bound

\* A draining thread that drops the item when the receiver is gone and reads
\* on.
ProducerSendSkips(c) ==
    LET ch == children[c].chan
    IN  /\ caller = "alive"
        /\ children[c].pc = "send"
        /\ IF channels[ch].rx = "dropped"
           THEN SetWorld([children EXCEPT ![c].pc = "read"], channels)
           ELSE /\ HasRoom(channels[ch])
                /\ channels' = [channels EXCEPT ![ch] = multi_thread_send(@, Held(c))]
                /\ children' = [children EXCEPT ![c].pc = "read"]
        /\ UNCHANGED <<config, runnerVars, caller, started>>

ProducerSend(c) ==
    LET ch == children[c].chan
    IN  /\ caller = "alive"
        /\ children[c].pc = "send"
        /\ IF channels[ch].rx = "dropped"
           THEN SetWorld([children EXCEPT ![c].pc = "panicked"], channels)
           ELSE /\ HasRoom(channels[ch])
                /\ channels' = [channels EXCEPT ![ch] = multi_thread_send(@, Held(c))]
                /\ children' = [children EXCEPT ![c].pc = "read"]
        /\ UNCHANGED <<config, runnerVars, caller, started>>

(***************************************************************************)
(* The staggered supervisor thread of channel ch: for each range, spawn a  *)
(* child, drain it in a thread of its own, join that thread.               *)
(***************************************************************************)
SupervisorSpawn(ch) ==
    LET sup == channels[ch].sup
        child == NewChild("segment", ch, "read")
    IN  /\ caller = "alive"
        /\ sup.st = "next"
        /\ \E spawnOk \in BOOLEAN :
              IF spawnOk
              THEN SetWorld(Append(children, child),
                            [channels EXCEPT ![ch].sup.st = "join",
                                             ![ch].sup.cur = Len(children) + 1])
              ELSE SetWorld(children, [channels EXCEPT ![ch].sup.st = "failed"])
        /\ UNCHANGED <<config, runnerVars, caller, started>>

\* A supervisor that goes on to the next range without joining the thread
\* that drains the child of this one.
SupervisorGoesOn(ch) ==
    LET sup == channels[ch].sup
    IN  /\ caller = "alive"
        /\ sup.st = "join"
        /\ SetWorld(children,
                    [channels EXCEPT
                        ![ch].sup.i = @ + 1,
                        ![ch].sup.st = IF sup.i + 1 = Len(sup.ranges) THEN "done"
                                       ELSE "next"])
        /\ UNCHANGED <<config, runnerVars, caller, started>>

SupervisorJoin(ch) ==
    LET sup == channels[ch].sup
    IN  /\ caller = "alive"
        /\ sup.st = "join"
        /\ children[sup.cur].pc \notin {"read", "send"}
        /\ SetWorld(children,
                    [channels EXCEPT
                        ![ch].sup.i = @ + 1,
                        ![ch].sup.st =
                            IF sup.inline /\ children[sup.cur].pc = "panicked"
                            THEN "failed"
                            ELSE IF sup.i + 1 = Len(sup.ranges) THEN "done"
                            ELSE "next"])
        /\ UNCHANGED <<config, runnerVars, caller, started>>

(***************************************************************************)
(* The consumer that owns the receiver of channel ch.                      *)
(***************************************************************************)
ConsumerRecv(ch) ==
    /\ caller = "alive"
    /\ channels[ch].rx = "held"
    /\ channels[ch].queue # <<>>
    /\ channels' = [channels EXCEPT ![ch].received = Append(@, Head(channels[ch].queue)),
                                    ![ch].queue = Tail(@)]
    /\ UNCHANGED <<config, runnerVars, children, caller, started>>

DropReceiver(ch) ==
    /\ caller = "alive"
    /\ channels[ch].rx = "held"
    /\ SetWorld(children, [channels EXCEPT ![ch].rx = "dropped"])
    /\ UNCHANGED <<config, runnerVars, caller, started>>

\* The consumer keeps the receiver and never calls recv again.
ConsumerStops(ch) ==
    /\ caller = "alive"
    /\ channels[ch].rx = "held"
    /\ channels' = [channels EXCEPT ![ch].rx = "stalled"]
    /\ UNCHANGED <<config, runnerVars, children, caller, started>>

(***************************************************************************)
(* The specification.                                                      *)
(***************************************************************************)
Configs == [bounded_buffer_size : 0..MaxBound, staggered : 0..MaxStagger]

Init ==
    /\ config \in Configs
    /\ status = "Closed"
    /\ ledger_buffer_reader = NoReader
    /\ prepared = NoPrepared
    /\ process = None
    /\ children = <<>>
    /\ channels = <<>>
    /\ caller = "alive"
    /\ started = [op |-> "new", ok |-> TRUE, refused |-> FALSE]

\* The threads and processes that run beside the caller, frames aside.
Background ==
    \/ \E c \in 1..Len(children) : ChildExit(c)
    \/ \E c \in 1..Len(children) : ProducerEnd(c)
    \/ \E ch \in 1..Len(channels) : SupervisorSpawn(ch)
    \/ \E ch \in 1..Len(channels) : SupervisorJoin(ch)
    \/ \E ch \in 1..Len(channels) : DropReceiver(ch)

\* The flow of frames from a pipe to the consumer.
Delivery ==
    \/ \E c \in 1..Len(children) : \E frame \in FrameVals : ProducerNext(c, frame)
    \/ \E c \in 1..Len(children) : ProducerSend(c)
    \/ \E ch \in 1..Len(channels) : ConsumerRecv(ch)

\* Spec: every order of facade calls, with the lifecycle of the processes and
\* threads they start; the children write nothing.
Next ==
    \/ \E rg \in Ranges : PrepareSingle(rg[1], rg[2], {<<>>})
    \/ \E rg \in Ranges : PrepareMulti(rg[1], rg[2], MaxChildren)
    \/ \E rg \in Ranges : PrepareAsync(rg[1], rg[2], MaxChildren)
    \/ StartOnline
    \/ StartOnlineAsync
    \/ Close
    \/ Background

\* No frame flows, so the bound of a channel is never looked at.
InitLifecycle == Init /\ config.bounded_buffer_size = None

Spec == InitLifecycle /\ [][Next]_vars

(***************************************************************************)
(* SpecRanges: one multi-thread catchup of a range drawn from wider        *)
(* bounds, staggered, with its supervisor run to the end; the children     *)
(* write nothing.                                                          *)
(***************************************************************************)
InitRanges ==
    /\ config \in [bounded_buffer_size : {None}, staggered : 1..MaxRangeStagger]
    /\ status = "Closed"
    /\ ledger_buffer_reader = NoReader
    /\ prepared = NoPrepared
    /\ process = None
    /\ children = <<>>
    /\ channels = <<>>
    /\ caller = "alive"
    /\ started = [op |-> "new", ok |-> TRUE, refused |-> FALSE]

NextRanges ==
    \/ \E from, to \in 0..MaxRangeLedger :
          started.op = "new" /\ PrepareMulti(from, to, MaxRangeLedger)
    \/ \E from, to \in 0..MaxRangeLedger :
          started.op = "new" /\ PrepareAsync(from, to, MaxRangeLedger)
    \/ \E c \in 1..Len(children) : ChildExit(c)
    \/ \E c \in 1..Len(children) : ProducerEnd(c)
    \/ \E ch \in 1..Len(channels) : SupervisorSpawn(ch)
    \/ \E ch \in 1..Len(channels) : SupervisorJoin(ch)

SpecRanges == InitRanges /\ [][NextRanges]_vars

(***************************************************************************)
(* SpecDelivery: one multi-thread or online start from a fresh runner,     *)
(* with the frames its children write flowing to the consumer, and closes. *)
(***************************************************************************)
NextDelivery ==
    \/ \E rg \in Ranges : started.op = "new" /\ PrepareMulti(rg[1], rg[2], MaxChildren)
    \/ started.op = "new" /\ StartOnline
    \/ Close
    \/ Background
    \/ Delivery

SpecDelivery == Init /\ [][NextDelivery]_vars

(***************************************************************************)
(* SpecSingle: single-thread preparations, one after the other, of         *)
(* children that write any stream, and closes.                             *)
(***************************************************************************)
NextSingle ==
    \/ \E rg \in Ranges : PrepareSingle(rg[1], rg[2], Streams)
    \/ Close

SpecSingle == Init /\ [][NextSingle]_vars

(***************************************************************************)
(* Claims about the lifecycle, checked under Spec.                         *)
(***************************************************************************)
\* What a refused start returns and leaves.
Refused(o) == o.res = "AlreadyRunning" /\ o.r = Runner /\ o.children = children

RefusedCh(o) == Refused(o) /\ o.channels = channels

\* Every start entry point, called in the current state with any arguments
\* and whatever the environment would do, is refused and changes nothing.
EveryStartRefused ==
    /\ \A rg \in Ranges, out \in Streams :
          \A overflowChecks, spawnOk, killOk, rmOk \in BOOLEAN :
             Refused(catchup_single_thread(Runner, children, rg[1], rg[2],
                                           overflowChecks, spawnOk, out, killOk, rmOk))
    /\ \A rg \in Ranges : \A overflowChecks, spawnOk \in BOOLEAN :
          /\ RefusedCh(catchup_multi_thread(Runner, children, channels, rg[1], rg[2],
                                            overflowChecks, spawnOk))
          /\ RefusedCh(async_catchup_multi_thread(Runner, children, channels,
                                                  rg[1], rg[2], overflowChecks, spawnOk))
    /\ \A warmOk, spawnOk \in BOOLEAN :
          /\ RefusedCh(run(Runner, children, channels, warmOk, spawnOk))
          /\ RefusedCh(run_async(Runner, children, channels, warmOk, spawnOk))

\* A step of the program in which a start is refused.
RefusedStep == started'.refused /\ ~started.refused

\* C1: while status is not Closed, each of catchup_single_thread,
\* catchup_multi_thread, run, async_catchup_multi_thread and run_async returns
\* AlreadyRunning, spawns no child and leaves status, process, reader and
\* prepared as they are; and a step in which a start is refused changes none of
\* them.
C1_StartWhileRunningRefused ==
    /\ [](status # "Closed" => EveryStartRefused)
    /\ [][RefusedStep => /\ status # "Closed"
                         /\ UNCHANGED <<runnerVars, children, channels>>]_vars

\* A start has been refused while a child of an earlier start is running.
C1_Witness ==
    /\ started.refused
    /\ status # "Closed"
    /\ process # None
    /\ LiveChildren # {}

\* C2: close_runner on a runner whose status is Closed, before any start or
\* for the second time, fails with AlreadyClosed.
C2_CloseWhileClosedIsAlreadyClosed ==
    status = "Closed" =>
        \A killOk, rmOk \in BOOLEAN :
            close_runner(Runner, killOk, rmOk).res = "AlreadyClosed"

\* C3: when the last start was prepare_ledgers_single_thread and it returned
\* Ok, close_runner_process fails with CloseOnSingleThread.
C3_CloseOnSingleThread ==
    started.op = "prepare_ledgers_single_thread" /\ started.ok =>
        \A killOk, rmOk \in BOOLEAN :
            close_runner_process(Runner, killOk, rmOk).res = "CloseOnSingleThread"

\* C4: at most one validator child is alive.
C4_AtMostOneLiveChild == Cardinality(LiveChildren) <= 1

(***************************************************************************)
(* Claims about the staggered ranges, checked under SpecRanges.            *)
(***************************************************************************)
\* The channels fed by a staggered supervisor, and the children it spawned.
StaggeredChannels ==
    {ch \in 1..Len(channels) :
        channels[ch].sup.asked # <<>> /\ config.staggered # None}

Invocations(ch) == {c \in 1..Len(children) : children[c].chan = ch}

AskedAmount(ch) == channels[ch].sup.asked[2] - channels[ch].sup.asked[1] + 1

SegmentsWith(ch, l) ==
    {n \in 1..Len(channels[ch].sup.ranges) :
        l \in Replayed(segment_catchup(channels[ch].sup.ranges[n]))}

\* C10, as amended: with k = floor((to - from) / S) >= 2 and
\* step = floor((to - from + 1) / k) there are k segments, each next one
\* starting right after the one before; every ledger of
\* [from, from + k * step - 1] lies in exactly one segment and every later
\* ledger of [from, to] in none; no segment asks for a ledger outside
\* [from, to].
C10_SegmentsCoverPrefix ==
    \A ch \in StaggeredChannels :
        LET rs == channels[ch].sup.ranges
            from == channels[ch].sup.asked[1]
            to == channels[ch].sup.asked[2]
            k == (to - from) \div config.staggered
            step == (to - from + 1) \div k
        IN  /\ Len(rs) = k
            /\ \A n \in 1..(Len(rs) - 1) : rs[n + 1].start = rs[n].end + 1
            /\ \A l \in from..to :
                  Cardinality(SegmentsWith(ch, l)) =
                      IF l <= from + k * step - 1 THEN 1 ELSE 0
            /\ \A n \in 1..Len(rs) :
                  Replayed(segment_catchup(rs[n])) \subseteq from..to

\* Every segment of a staggered catchup has been run and no segment asked for
\* the last ledger of the range.
C10_Witness ==
    \E ch \in StaggeredChannels :
        /\ channels[ch].sup.st = "done"
        /\ Len(channels[ch].sup.ranges) >= 2
        /\ SegmentsWith(ch, channels[ch].sup.asked[2]) = {}

\* C10 as stated: every ledger of [from, to] lies in exactly one segment.
C10_SegmentsPartitionRange ==
    \A ch \in StaggeredChannels :
        \A l \in channels[ch].sup.asked[1]..channels[ch].sup.asked[2] :
            Cardinality(SegmentsWith(ch, l)) = 1

\* The ledgers of a segment.
LedgersOf(range) == range.start..range.end

\* C29: with k = floor((to - from) / S) >= 2 and step = (to - from + 1) / k,
\* segment i (0 <= i < k) is [from + i * step, min(from + (i + 1) * step - 1,
\* to)]; the segments are non-empty, pairwise disjoint, each starts one past
\* the end of the one before, the first starts at from, and the child of a
\* segment is asked for end / (end - start + 1).
C29_SegmentsAsComputed ==
    \A ch \in StaggeredChannels :
        LET rs == channels[ch].sup.ranges
            from == channels[ch].sup.asked[1]
            to == channels[ch].sup.asked[2]
            k == (to - from) \div config.staggered
            step == (to - from + 1) \div k
        IN  /\ k >= 2
            /\ Len(rs) = k
            /\ \A i \in 0..(k - 1) :
                  /\ rs[i + 1].start = from + i * step
                  /\ rs[i + 1].end = Min(from + (i + 1) * step - 1, to)
                  /\ LedgersOf(rs[i + 1]) # {}
                  /\ segment_catchup(rs[i + 1]).to = rs[i + 1].end
                  /\ segment_catchup(rs[i + 1]).count = Cardinality(LedgersOf(rs[i + 1]))
            /\ \A i, j \in 1..k : i # j => LedgersOf(rs[i]) \cap LedgersOf(rs[j]) = {}
            /\ \A i \in 1..(k - 1) : rs[i + 1].start = rs[i].end + 1
            /\ rs[1].start = from

\* A staggered catchup that does not start at ledger 0 has run its segments,
\* each of more than one ledger.
C29_Witness ==
    \E ch \in StaggeredChannels :
        /\ channels[ch].sup.st = "done"
        /\ channels[ch].sup.asked[1] > 0
        /\ Len(channels[ch].sup.ranges) >= 2
        /\ \A n \in 1..Len(channels[ch].sup.ranges) :
              Cardinality(LedgersOf(channels[ch].sup.ranges[n])) >= 2

(***************************************************************************)
(* Claims about delivery, checked under SpecDelivery.                      *)
(***************************************************************************)
\* The items of child c's stdout that its draining thread has sent.
Sent(c) ==
    IF children[c].pc = "send"
    THEN MetaSeq(SubSeq(children[c].stream, 1, Len(children[c].stream) - 1))
    ELSE MetaSeq(children[c].stream)

\* What has been sent on channel ch by the children 1..c, child after child.
RECURSIVE SentUpTo(_, _)
SentUpTo(ch, c) ==
    IF c = 0 THEN <<>>
    ELSE SentUpTo(ch, c - 1) \o (IF children[c].chan = ch THEN Sent(c) ELSE <<>>)

\* What has been decoded from the stdout of the children of channel ch.
RECURSIVE DecodedUpTo(_, _)
DecodedUpTo(ch, c) ==
    IF c = 0 THEN <<>>
    ELSE DecodedUpTo(ch, c - 1)
         \o (IF children[c].chan = ch THEN MetaSeq(children[c].stream) ELSE <<>>)

\* The channels of catchup_multi_thread (not staggered) and of run whose
\* receiver is held.
PlainChannels ==
    {ch \in 1..Len(channels) :
        channels[ch].sup.st = "none" /\ channels[ch].rx = "held"}

\* C5: on the channel of a non-staggered catchup_multi_thread or of run,
\* bounded or not, while the receiver is held: what has been received followed
\* by what is queued is what the draining thread has sent, item for item in the
\* order decoded; a bounded channel holds no more than its bound; and when the
\* receiver finds the channel closed it has received every item decoded from
\* the child's stdout.
C5_ReceivedIsDecoded ==
    \A ch \in PlainChannels :
        /\ Cardinality(Invocations(ch)) = 1
        /\ channels[ch].received \o channels[ch].queue = SentUpTo(ch, Len(children))
        /\ channels[ch].bound # None => Len(channels[ch].queue) <= channels[ch].bound
        /\ Disconnected(ch) =>
              channels[ch].received = DecodedUpTo(ch, Len(children))

\* A channel of bound 1 found closed after MaxFrames items, a failed decoding
\* among them, went through it.
C5_Witness ==
    \E ch \in PlainChannels :
        /\ channels[ch].bound = 1
        /\ Disconnected(ch)
        /\ Len(channels[ch].received) = MaxFrames
        /\ \E i, j \in 1..MaxFrames : channels[ch].received[i] # channels[ch].received[j]

\* The channels of a staggered catchup whose receiver is held.
HeldStaggered == {ch \in StaggeredChannels : channels[ch].rx = "held"}

\* C7: in a staggered catchup, while the receiver is held: what has been
\* received followed by what is queued is what the segments' threads have sent,
\* segment after segment and within a segment in the order decoded; a segment's
\* child is spawned only when every segment before it is drained to the end;
\* and when the receiver finds the channel closed it has received as many items
\* as were decoded from all the segments' children together.
C7_SegmentsInOrder ==
    \A ch \in HeldStaggered :
        /\ channels[ch].received \o channels[ch].queue = SentUpTo(ch, Len(children))
        /\ \A c, d \in Invocations(ch) : c < d => children[c].pc = "done"
        /\ Disconnected(ch) =>
              /\ channels[ch].received = DecodedUpTo(ch, Len(children))
              /\ \A c \in Invocations(ch) : children[c].pc = "done"

\* Two segments of different content have been received in full and the
\* channel is closed.
C7_Witness ==
    \E ch \in HeldStaggered :
        /\ Disconnected(ch)
        /\ channels[ch].sup.st = "done"
        /\ \E c, d \in Invocations(ch) :
              /\ c < d
              /\ children[c].stream # <<>>
              /\ children[d].stream # <<>>
              /\ children[c].stream # children[d].stream

\* C8: the receiver of a staggered catchup finds the channel closed only after
\* the items of the last segment have been delivered: every segment has been
\* run and all that its child wrote has been received.
C8_ClosedOnlyAfterLastSegment ==
    \A ch \in HeldStaggered :
        Disconnected(ch) =>
            /\ Cardinality(Invocations(ch)) = Len(channels[ch].sup.ranges)
            /\ channels[ch].received = DecodedUpTo(ch, Len(children))

(***************************************************************************)
(* Claims about single-thread preparation, checked under SpecSingle.       *)
(***************************************************************************)
\* Whatever is prepared already, a catchup_single_thread that returns Ok
\* leaves as the prepared set the MetaResults of its child's stdout.
PreparesWhatIsDecoded ==
    \A rg \in Ranges, out \in Streams :
        \A overflowChecks, spawnOk, killOk, rmOk \in BOOLEAN :
            LET o == catchup_single_thread(Runner, children, rg[1], rg[2],
                                           overflowChecks, spawnOk, out, killOk, rmOk)
            IN  o.res = "Ok" => o.r.prepared = [some |-> TRUE, v |-> MetaSeq(out)]

\* A step in which prepare_ledgers_single_thread returns Ok.
PreparedStep ==
    /\ started' # started
    /\ started'.op = "prepare_ledgers_single_thread"
    /\ started'.ok

\* C6: after prepare_ledgers_single_thread returns Ok the prepared set is the
\* sequence of MetaResults decoded from that invocation's child's stdout, in
\* order, nothing dropped; a later preparation replaces the set: it does not
\* depend on what was prepared before, and is never longer than one child's
\* output.
C6_PreparedIsDecoded ==
    /\ []PreparesWhatIsDecoded
    /\ [][PreparedStep => prepared'.some /\ Len(prepared'.v) <= MaxFrames]_vars

\* A second preparation has returned Ok, with MaxFrames items prepared.
C6_Witness ==
    /\ started.op = "prepare_ledgers_single_thread"
    /\ started.ok
    /\ Len(children) >= 2
    /\ prepared.some
    /\ Len(prepared.v) = MaxFrames

(***************************************************************************)
(* SpecReader: a BufferedLedgerMetaReader on its own.  The runner is where *)
(* a catchup has it once new has returned: status RunningOffline, the      *)
(* child held, its stdout (what it decodes to is drawn) in the reader, and *)
(* for a MultiThread reader the channel of its sender.  The reader's       *)
(* methods and clone are then called in any order; started.op names the    *)
(* last one called and started.ok whether it returned Ok.                  *)
(***************************************************************************)
InitReader ==
    /\ config = [bounded_buffer_size |-> None, staggered |-> None]
    /\ status = "RunningOffline"
    /\ prepared = NoPrepared
    /\ process = 1
    /\ caller = "alive"
    /\ started = [op |-> "new", ok |-> TRUE, refused |-> FALSE]
    /\ \E out \in Streams :
          children = <<[NewChild("catchup", None, "none") EXCEPT !.stream = out,
                                                                !.st = "exited"]>>
    /\ \/ /\ ledger_buffer_reader = NewReader("SingleThread", None).reader
          /\ channels = <<>>
       \/ /\ ledger_buffer_reader = NewReader("MultiThread", 1).reader
          /\ channels = <<NewChannel(None, NoSupervisor)>>

\* What the reader's iterator has still to yield: the child's stdout until a
\* drain has read it to its end.
Pipe == IF children[1].pc = "none" THEN children[1].stream ELSE <<>>

Called(op, res) == started' = [op |-> op, ok |-> res = "Ok", refused |-> FALSE]

ReaderDrain ==
    LET o == single_thread_read_ledger_meta_from_pipe(ledger_buffer_reader, Pipe)
    IN  /\ ledger_buffer_reader' = o.reader
        /\ children' = IF o.res = "Ok" THEN [children EXCEPT ![1].pc = "done"]
                       ELSE children
        /\ Called("single_thread_read_ledger_meta_from_pipe", o.res)
        /\ UNCHANGED <<config, status, prepared, process, channels, caller>>

ReaderDrainMulti ==
    LET o == multi_thread_read_ledger_meta_from_pipe(ledger_buffer_reader, Pipe)
    IN  /\ ledger_buffer_reader' = o.reader
        /\ children' = IF o.res = "Ok" THEN [children EXCEPT ![1].pc = "done"]
                       ELSE children
        /\ channels' = IF o.res = "Ok"
                       THEN [channels EXCEPT ![ledger_buffer_reader.chan].queue =
                                                 @ \o o.sent]
                       ELSE channels
        /\ Called("multi_thread_read_ledger_meta_from_pipe", o.res)
        /\ UNCHANGED <<config, status, prepared, process, caller>>

\* load_prepared: read_meta, and the copy kept as the prepared set.
ReaderSnapshot ==
    LET o == load_prepared(Runner)
    IN  /\ prepared' = o.r.prepared
        /\ Called("read_meta", o.res)
        /\ UNCHANGED <<config, status, ledger_buffer_reader, process, children,
                       channels, caller>>

ReaderClear ==
    LET o == clear_buffered(ledger_buffer_reader)
    IN  /\ ledger_buffer_reader' = o.reader
        /\ Called("clear_buffered", o.res)
        /\ UNCHANGED <<config, status, prepared, process, children, channels, caller>>

\* self.ledger_buffer_reader = Some(reader.clone())
ReaderClone ==
    /\ ledger_buffer_reader' = CloneReader(ledger_buffer_reader)
    /\ Called("clone", "Ok")
    /\ UNCHANGED <<config, status, prepared, process, children, channels, caller>>

NextReader ==
    \/ ReaderDrain
    \/ ReaderDrainMulti
    \/ ReaderSnapshot
    \/ ReaderClear
    \/ ReaderClone

SpecReader == InitReader /\ [][NextReader]_vars

(***************************************************************************)
(* SpecFacade: every order of blocking facade calls, get_ledger among      *)
(* them, with single-thread catchups whose children write metas that are   *)
(* told apart; the other children write nothing and nothing runs beside    *)
(* the caller.                                                             *)
(***************************************************************************)
NextFacade ==
    \/ \E rg \in Ranges : PrepareSingle(rg[1], rg[2], MetaStreams)
    \/ \E rg \in Ranges : PrepareMulti(rg[1], rg[2], MaxChildren)
    \/ StartOnline
    \/ Close
    \/ \E sequence \in Sequences : GetLedger(sequence)

SpecFacade == InitLifecycle /\ [][NextFacade]_vars

(***************************************************************************)
(* Claims about get_ledger, checked under SpecFacade.                      *)
(***************************************************************************)
\* The places of the prepared set whose record has ledger sequence s.
Matches(s) ==
    {i \in 1..Len(prepared.v) :
        /\ prepared.v[i].ledger_close_meta # None
        /\ ledger_seq(prepared.v[i].ledger_close_meta) = s}

\* C13: for a prepared set and a sequence s, get_ledger(s) returns the first
\* record in prepared-set order whose ledger sequence is s, error items
\* skipped, and LedgerNotFound exactly when no record has sequence s.
C13_GetLedgerReturnsFirstMatch ==
    prepared.some =>
        \A s \in Sequences :
            LET o == get_ledger(Runner, s)
            IN  IF Matches(s) = {}
                THEN o.res = "LedgerNotFound"
                ELSE /\ o.res = "Ok"
                     /\ \E i \in Matches(s) :
                           /\ \A j \in Matches(s) : i <= j
                           /\ o.meta = prepared.v[i].ledger_close_meta

\* An error item, then two different metas of one sequence: the first of the
\* two is returned, and a sequence that no record has is not found.
C13_Witness ==
    /\ prepared.some
    /\ Len(prepared.v) = 3
    /\ prepared.v[1].ledger_close_meta = None
    /\ Cardinality(Matches(1)) = 2
    /\ get_ledger(Runner, 1).meta = prepared.v[2].ledger_close_meta
    /\ prepared.v[2] # prepared.v[3]
    /\ get_ledger(Runner, 2).res = "LedgerNotFound"

\* C14: in every state of the facade get_ledger(s) returns Ok or
\* LedgerNotFound, LedgerNotFound when no record has sequence s; it never
\* aborts.
C14_GetLedgerNeverAborts ==
    \A s \in Sequences :
        LET o == get_ledger(Runner, s)
        IN  /\ o.res \in {"Ok", "LedgerNotFound"}
            /\ Matches(s) = {} => o.res = "LedgerNotFound"

(***************************************************************************)
(* SpecCancel: one multi-thread start without staggering, its close, and   *)
(* the draining thread and consumer under fair scheduling: a thread that   *)
(* can run does run, and a consumer that has not stopped receives what is  *)
(* queued.                                                                 *)
(***************************************************************************)
InitCancel == Init /\ config.staggered = None

NextCancel ==
    \/ \E rg \in Ranges : started.op = "new" /\ PrepareMulti(rg[1], rg[2], MaxChildren)
    \/ started.op = "new" /\ StartOnline
    \/ Close
    \/ \E c \in 1..Len(children) : ChildExit(c)
    \/ \E c \in 1..Len(children) : ProducerEnd(c)
    \/ \E ch \in 1..Len(channels) : DropReceiver(ch)
    \/ \E ch \in 1..Len(channels) : ConsumerStops(ch)
    \/ Delivery

FairCancel ==
    /\ \A c \in 1..MaxChildren : WF_vars(c <= Len(children) /\ ProducerEnd(c))
    /\ \A c \in 1..MaxChildren : WF_vars(c <= Len(children) /\ ProducerSend(c))
    /\ \A ch \in 1..MaxChildren : WF_vars(ch <= Len(channels) /\ ConsumerRecv(ch))

SpecCancel == InitCancel /\ [][NextCancel]_vars /\ FairCancel

(***************************************************************************)
(* Claims about cancellation, checked under SpecCancel.                    *)
(***************************************************************************)
\* The draining thread of child c runs and its child was killed.
KilledProducer(c) ==
    /\ c <= Len(children)
    /\ children[c].st = "killed"
    /\ children[c].pc \in {"read", "send"}

ProducerExited(c) ==
    IF c <= Len(children) THEN children[c].pc \notin {"read", "send"} ELSE TRUE

Stalled(c) ==
    /\ c <= Len(children)
    /\ children[c].chan # None
    /\ channels[children[c].chan].rx = "stalled"

\* The consumer of channel ch has received everything and finds it closed.
ObservedClosed(ch) == channels[ch].rx = "held" /\ Disconnected(ch)

\* C12 (amended): once the child is killed its draining thread exits and the
\* receiver observes the channel closed, bounded or not, unless the consumer
\* has stopped receiving or has dropped the receiver.
C12_KilledProducerExitsUnlessStalled ==
    \A c \in 1..MaxChildren :
        KilledProducer(c) ~>
            \/ Stalled(c)
            \/ /\ ProducerExited(c)
               /\ \A ch \in 1..Len(channels) :
                      channels[ch].rx = "held" => Disconnected(ch)

C12_Witness ==
    \E c \in 1..Len(children) :
        /\ children[c].st = "killed"
        /\ children[c].pc = "done"
        /\ children[c].chan # None
        /\ channels[children[c].chan].bound # None
        /\ channels[children[c].chan].received # <<>>
        /\ ObservedClosed(children[c].chan)

\* C12 (as stated): once the child is killed its draining thread exits,
\* whatever the consumer does.
C12_KilledProducerExits ==
    \A c \in 1..MaxChildren : KilledProducer(c) ~> ProducerExited(c)

(***************************************************************************)
(* Claims about closing, checked under Spec.                               *)
(***************************************************************************)
\* A step that a close_runner_process returning Ok takes from a running
\* multi-thread or online session.
CloseOkStep ==
    /\ status # "Closed"
    /\ started.op # "prepare_ledgers_single_thread"
    /\ started' = started
    /\ \E killOk, rmOk \in BOOLEAN :
          LET o == close_runner_process(Runner, killOk, rmOk)
          IN  /\ o.res = "Ok"
              /\ ~killOk => KillCanFail
              /\ o.r.status = status'
              /\ o.r.reader = ledger_buffer_reader'
              /\ o.r.process = process'
              /\ children' = Settle(KillChild(children, o.killed), channels).children
              /\ channels' = Settle(KillChild(children, o.killed), channels).channels

\* C11: when close_runner_process returns Ok in a multi-thread mode no child
\* of the facade is alive and no supervisor has a child left to spawn.
C11_NoChildAfterClose ==
    [][CloseOkStep => /\ LiveChildren' = {}
                      /\ SumUnspawned(channels') = 0]_vars

(***************************************************************************)
(* Claims about the arguments and failures of a start, checked under Spec. *)
(***************************************************************************)
\* A start that was turned down before anything happened: an error is
\* returned, the runner is as it was and no child was spawned.
Rejected(o) ==
    /\ o.res \notin {"Ok", "panic"}
    /\ o.r = Runner
    /\ Len(o.children) = Len(Found.children)

\* C15: prepare_ledgers_single_thread and prepare_ledgers_multi_thread
\* reject a range with from > to: an error is returned, no child is spawned,
\* the status stays Closed and to - from + 1 is not computed.
C15_SwappedRangeRejected ==
    status = "Closed" =>
        \A rg \in Ranges : \A overflowChecks, spawnOk \in BOOLEAN :
            rg[1] > rg[2] =>
                /\ Rejected(catchup_single_thread(Runner, Found.children, rg[1], rg[2],
                                                   overflowChecks, spawnOk, <<>>,
                                                   TRUE, TRUE))
                /\ Rejected(catchup_multi_thread(Runner, Found.children,
                                                  Found.channels, rg[1], rg[2],
                                                  overflowChecks, spawnOk))

\* C19: in every start operation a failure to spawn the validator is
\* returned to the caller as CliExec: the child of a catchup, the warm-up
\* catchup and the validator of run, and no supervisor of a staggered catchup
\* that returned Ok fails to spawn a segment's child.
C19_SpawnFailureIsCliExec ==
    /\ status = "Closed" =>
          /\ \A rg \in Ranges : \A overflowChecks \in BOOLEAN :
                rg[1] <= rg[2] =>
                   /\ catchup_single_thread(Runner, Found.children, rg[1], rg[2],
                                            overflowChecks, FALSE, <<>>, TRUE,
                                            TRUE).res = "CliExec"
                   /\ config.staggered = None =>
                         catchup_multi_thread(Runner, Found.children, Found.channels,
                                              rg[1], rg[2], overflowChecks,
                                              FALSE).res = "CliExec"
          /\ \A warmOk, spawnOk \in BOOLEAN :
                ~(warmOk /\ spawnOk) =>
                    run(Runner, Found.children, Found.channels, warmOk,
                        spawnOk).res = "CliExec"
    /\ \A ch \in 1..Len(channels) :
          channels[ch].sup.st = "failed" /\ ~channels[ch].sup.inline => ~started.ok

(***************************************************************************)
(* Claims about the sinks of a reader, checked under Spec.                 *)
(***************************************************************************)
Modes == {"SingleThread", "MultiThread"}

\* The senders a caller can pass: none, or the sender of a channel.
Transmitters == {None} \cup 1..MaxChildren

\* Exactly one sink, the one of the mode.
OneSink(rd) ==
    IF rd.mode = "SingleThread" THEN rd.has_cached /\ rd.chan = None
    ELSE rd.mode = "MultiThread" /\ ~rd.has_cached /\ rd.chan # None

\* What the methods that write to a reader leave of it.
AfterUse(rd) ==
    {single_thread_read_ledger_meta_from_pipe(rd, frames).reader : frames \in Streams}
    \cup {clear_buffered(rd).reader}

\* C20: BufferedLedgerMetaReader::new fails with UnusedTransmitter for
\* SingleThread with a sender, with MissingTransmitter for MultiThread without
\* one, and otherwise yields a reader with exactly one sink: a buffer and no
\* sender, or a sender and no buffer.  The reader keeps that sink through
\* every method that writes to it and for as long as the runner holds it.
C20_ReaderHasOneSink ==
    /\ \A mode \in Modes, transmitter \in Transmitters :
          LET made == NewReader(mode, transmitter)
          IN  IF mode = "SingleThread" /\ transmitter # None
              THEN made.res = "UnusedTransmitter"
              ELSE IF mode = "MultiThread" /\ transmitter = None
              THEN made.res = "MissingTransmitter"
              ELSE /\ made.res = "Ok"
                   /\ OneSink(made.reader)
                   /\ \A used \in AfterUse(made.reader) :
                         /\ OneSink(used)
                         /\ \A again \in AfterUse(used) : OneSink(again)
    /\ ledger_buffer_reader # NoReader /\ ~ledger_buffer_reader.cloned
          => OneSink(ledger_buffer_reader)

\* The runner holds the MultiThread reader that new made for an async start,
\* with the sender of that start's channel.
C20_Witness ==
    /\ ledger_buffer_reader.mode = "MultiThread"
    /\ ~ledger_buffer_reader.cloned
    /\ ledger_buffer_reader.chan \in 1..Len(channels)
    /\ started.ok

(***************************************************************************)
(* Claims about the status of a running session, checked under             *)
(* SpecDelivery.                                                           *)
(***************************************************************************)
\* A step that a close_runner_process call takes, whatever it returns.
CloseStep ==
    \E killOk, rmOk \in BOOLEAN :
        LET o == close_runner_process(Runner, killOk, rmOk)
        IN  /\ ~killOk => KillCanFail
            /\ o.r.status = status'
            /\ o.r.reader = ledger_buffer_reader'
            /\ o.r.process = process'
            /\ o.r.prepared = prepared'
            /\ children' = Settle(KillChild(children, o.killed), channels).children
            /\ channels' = Settle(KillChild(children, o.killed), channels).channels
            /\ started' = started

\* The stream of the session is over: every child is gone, every draining
\* thread and supervisor has finished.
StreamEnded ==
    /\ LiveChildren = {}
    /\ \A c \in 1..Len(children) : children[c].pc \notin {"read", "send"}
    /\ \A ch \in 1..Len(channels) : channels[ch].sup.st \notin {"next", "join"}

RunningAfterOk ==
    /\ started.ok
    /\ \/ started.op = "prepare_ledgers_multi_thread" /\ status = "RunningOffline"
       \/ started.op = "start_online_no_range" /\ status = "RunningOnline"

\* C16: after catchup_multi_thread or run returned Ok the status stays
\* RunningOffline / RunningOnline through every step of the child, the
\* draining threads, the supervisor and the consumer, and becomes Closed only
\* in a step of close_runner_process; a start issued once the stream has
\* ended and before a close is refused with AlreadyRunning.
C16_RunningUntilClose ==
    /\ [][(Background \/ Delivery) => status' = status]_vars
    /\ [][RunningAfterOk => \/ status' = status
                            \/ status' = "Closed" /\ CloseStep]_vars
    /\ [](RunningAfterOk /\ StreamEnded =>
            \A rg \in Ranges : \A overflowChecks, spawnOk, warmOk \in BOOLEAN :
                /\ RefusedCh(catchup_multi_thread(Runner, children, channels,
                                                   rg[1], rg[2], overflowChecks,
                                                   spawnOk))
                /\ RefusedCh(run(Runner, children, channels, warmOk, spawnOk)))

\* The catchup's stream has ended and was received, the receiver sees the
\* channel closed, and the runner is still RunningOffline.
C16_Witness ==
    /\ RunningAfterOk
    /\ StreamEnded
    /\ status = "RunningOffline"
    /\ \E ch \in 1..Len(channels) :
          /\ channels[ch].received # <<>>
          /\ ObservedClosed(ch)

(***************************************************************************)
(* Claims about the end of a single-thread catchup, checked under          *)
(* SpecSingle.                                                             *)
(***************************************************************************)
\* A start called on runner r is not turned down as AlreadyRunning.
Accepted(r, cs) ==
    \A rg \in Ranges : \A overflowChecks, spawnOk, killOk, rmOk \in BOOLEAN :
        /\ catchup_single_thread(r, cs, rg[1], rg[2], overflowChecks, spawnOk,
                                 <<>>, killOk, rmOk).res # "AlreadyRunning"
        /\ catchup_multi_thread(r, cs, channels, rg[1], rg[2], overflowChecks,
                                spawnOk).res # "AlreadyRunning"

\* What a catchup_single_thread that returns Ok leaves: the whole stream of
\* its child prepared, the runner closed with no child and no reader, the
\* child not running, and a runner that accepts the next preparation.
SingleOkLeavesClosed ==
    \A rg \in Ranges, out \in Streams :
        \A overflowChecks, spawnOk, killOk, rmOk \in BOOLEAN :
            LET o == catchup_single_thread(Runner, Found.children, rg[1], rg[2],
                                           overflowChecks, spawnOk, out, killOk, rmOk)
            IN  o.res = "Ok" =>
                   /\ o.r.status = "Closed"
                   /\ o.r.process = None
                   /\ o.r.reader = NoReader
                   /\ o.r.prepared.some
                   /\ Len(o.r.prepared.v) = Len(out)
                   /\ o.children[Len(o.children)].st # "running"
                   /\ Accepted(o.r, o.children)

\* C17: when prepare_ledgers_single_thread returns Ok the child's stream was
\* drained to its end, the status is Closed, no child is held, the reader is
\* released, the prepared set is loaded, and the next preparation, single- or
\* multi-thread, is accepted without a close in between.
C17_SingleThreadEndsClosed ==
    /\ []SingleOkLeavesClosed
    /\ [][PreparedStep => /\ status' = "Closed"
                          /\ process' = None
                          /\ ledger_buffer_reader' = NoReader
                          /\ prepared'.some
                          /\ LiveChildren' = {}]_vars
    /\ [](started.op = "prepare_ledgers_single_thread" /\ started.ok /\ status = "Closed"
            => Accepted(Runner, Found.children))

\* A preparation returned Ok right after another, no close in between, and
\* left the runner closed with its set loaded.
C17_Witness ==
    /\ started.op = "prepare_ledgers_single_thread"
    /\ started.ok
    /\ ~started.refused
    /\ Len(children) >= 2
    /\ status = "Closed"
    /\ process = None
    /\ ledger_buffer_reader = NoReader
    /\ prepared.some
    /\ prepared.v # <<>>

(***************************************************************************)
(* Claims about back-pressure, checked under SpecDelivery.                 *)
(***************************************************************************)
\* The channels whose receiver the consumer still has.
OpenChannels == {ch \in 1..Len(channels) : channels[ch].rx # "dropped"}

\* A step in which an item is sent on channel ch.
SendStep(ch) ==
    /\ ch <= Len(channels')
    /\ Len(channels'[ch].queue) > Len(channels[ch].queue)

\* C18: with bounded_buffer_size = B the channel of catchup_multi_thread,
\* staggered or not, and of run is bounded by B; the items sent and not yet
\* received are never more than B; an item is sent only when fewer than B are
\* waiting.
C18_QueueWithinBound ==
    /\ [](config.bounded_buffer_size # None =>
            \A ch \in OpenChannels :
                /\ channels[ch].bound = config.bounded_buffer_size
                /\ Len(channels[ch].queue) <= config.bounded_buffer_size)
    /\ [][\A ch \in 1..Len(channels) :
            SendStep(ch) /\ channels[ch].bound # None =>
                Len(channels[ch].queue) < channels[ch].bound]_vars

\* A staggered catchup over a bounded channel: the channel is full again
\* after the consumer has received, while a draining thread waits to send.
C18_Witness ==
    \E ch \in OpenChannels :
        /\ channels[ch].bound # None
        /\ channels[ch].sup.st # "none"
        /\ Len(channels[ch].queue) = channels[ch].bound
        /\ channels[ch].received # <<>>
        /\ \E c \in 1..Len(children) :
              children[c].chan = ch /\ children[c].pc = "send"

(***************************************************************************)
(* Claims about the methods of a reader, checked under SpecReader.         *)
(***************************************************************************)
SingleThreadOps ==
    {"single_thread_read_ledger_meta_from_pipe", "read_meta", "clear_buffered"}

\* A step in which a method of the other mode was called on the reader.
WrongModeStep ==
    \/ ledger_buffer_reader.mode = "MultiThread" /\ started'.op \in SingleThreadOps
    \/ /\ ledger_buffer_reader.mode = "SingleThread"
       /\ started'.op = "multi_thread_read_ledger_meta_from_pipe"

\* C21: on a MultiThread reader single_thread_read_ledger_meta_from_pipe,
\* read_meta and clear_buffered return WrongModeMultiThread, and on a
\* SingleThread reader multi_thread_read_ledger_meta_from_pipe returns
\* WrongModeSingleThread; nothing is read from the stream, and neither the
\* buffer nor the channel changes.
C21_WrongModeRefused ==
    /\ [](LET rd == ledger_buffer_reader
          IN  /\ rd.mode = "MultiThread" =>
                    /\ single_thread_read_ledger_meta_from_pipe(rd, Pipe)
                          = [res |-> "WrongModeMultiThread", reader |-> rd, read |-> 0]
                    /\ read_meta(rd).res = "WrongModeMultiThread"
                    /\ clear_buffered(rd)
                          = [res |-> "WrongModeMultiThread", reader |-> rd]
              /\ rd.mode = "SingleThread" =>
                    multi_thread_read_ledger_meta_from_pipe(rd, Pipe)
                        = [res |-> "WrongModeSingleThread", reader |-> rd,
                           read |-> 0, sent |-> <<>>])
    /\ [][WrongModeStep =>
            /\ ~started'.ok
            /\ UNCHANGED <<ledger_buffer_reader, prepared, children, channels>>]_vars

\* A MultiThread reader that has sent the items of its stream was then asked
\* for a snapshot and refused.
C21_Witness ==
    /\ ledger_buffer_reader.mode = "MultiThread"
    /\ ~ledger_buffer_reader.cloned
    /\ channels[1].queue # <<>>
    /\ started.op = "read_meta"
    /\ ~started.ok

\* C22: on a cloned reader, whatever its mode, each of the two drains, the
\* snapshot and the clear fails with UsedClonedBufreader.
C22_StubAlwaysUsedCloned ==
    LET rd == ledger_buffer_reader
    IN  rd.cloned =>
           /\ single_thread_read_ledger_meta_from_pipe(rd, Pipe).res
                 = "UsedClonedBufreader"
           /\ multi_thread_read_ledger_meta_from_pipe(rd, Pipe).res
                 = "UsedClonedBufreader"
           /\ read_meta(rd).res = "UsedClonedBufreader"
           /\ clear_buffered(rd).res = "UsedClonedBufreader"

\* C23: on a SingleThread reader a snapshot taken after clear_buffered is
\* empty whatever the buffer held; clearing twice is clearing once; and a
\* snapshot is the buffer's content and leaves the buffer as it is.
C23_ClearThenSnapshotIsEmpty ==
    /\ [](LET rd == ledger_buffer_reader
              cleared == clear_buffered(rd)
          IN  rd.mode = "SingleThread" /\ ~rd.cloned =>
                 /\ cleared.res = "Ok"
                 /\ read_meta(cleared.reader) = [res |-> "Ok", v |-> <<>>]
                 /\ clear_buffered(cleared.reader) = cleared
                 /\ read_meta(rd) = [res |-> "Ok", v |-> rd.cached])
    /\ [][started'.op = "read_meta" => UNCHANGED ledger_buffer_reader]_vars
    /\ [][started'.op = "clear_buffered" /\ started'.ok =>
            ledger_buffer_reader'.cached = <<>>]_vars

\* The buffer held items, a snapshot of them was taken, and the buffer was
\* cleared.
C23_Witness ==
    /\ started.op = "clear_buffered"
    /\ started.ok
    /\ prepared.some
    /\ prepared.v # <<>>
    /\ ledger_buffer_reader.cached = <<>>

\* The runner holds no child and staggered is not configured.
NothingToKill == process = None /\ config.staggered = None

\* C25 (amended): close_runner returns ProcessNotFound only if the runner
\* holds no child and staggered is not configured, and on a runner that is
\* not Closed exactly then; with staggered configured a close of a runner that
\* is not Closed and holds no child returns Ok if `rm` can be spawned.
C25_ProcessNotFoundWhenRunning ==
    \A killOk, rmOk \in BOOLEAN :
        LET o == close_runner(Runner, killOk, rmOk)
        IN  (~killOk => KillCanFail) =>
               /\ o.res = "ProcessNotFound" => NothingToKill
               /\ status # "Closed" => (o.res = "ProcessNotFound" <=> NothingToKill)
               /\ status # "Closed" /\ process = None /\ config.staggered # None /\ rmOk
                     => o.res = "Ok"

\* A runner that is not Closed and holds no child while a child it started is
\* running, staggered not configured: close_runner returns ProcessNotFound.
C25_Witness ==
    /\ status # "Closed"
    /\ NothingToKill
    /\ started.ok
    /\ LiveChildren # {}
    /\ close_runner(Runner, TRUE, TRUE).res = "ProcessNotFound"

\* C25 as stated: close_runner returns ProcessNotFound exactly when the runner
\* holds no child and staggered is not configured, and Ok when it holds no
\* child and staggered is configured.
C25_ProcessNotFoundIff ==
    LET o == close_runner(Runner, TRUE, TRUE)
    IN  /\ o.res = "ProcessNotFound" <=> NothingToKill
        /\ process = None /\ config.staggered # None => o.res = "Ok"

(***************************************************************************)
(* Claims about the online start, checked under Spec.                      *)
(***************************************************************************)
\* C24: a run that returns Ok has invoked new-db and waited for it, then
\* catchup current/2 and waited for it, and then spawned the `run` child
\* that feeds the receiver; of the three only that last one is alive.
C24_NewDbThenWarmupThenRun ==
    status = "Closed" =>
        LET o == run(Runner, Found.children, Found.channels, TRUE, TRUE)
            n == Len(Found.children)
        IN  o.res = "Ok" =>
               /\ Len(o.children) = n + 3
               /\ o.children[n + 1].kind = "newdb"
               /\ o.children[n + 1].st # "running"
               /\ o.children[n + 2].kind = "warmup"
               /\ o.children[n + 2].st # "running"
               /\ o.children[n + 3].kind = "run"
               /\ o.children[n + 3].chan # None
               /\ o.r.process = n + 3

\* C26: an async start leaves what the synchronous start leaves for the same
\* outcome of its spawns: the same result, and when that is Ok a child whose
\* pipe is being drained towards the receiver by the reader that new made,
\* the runner keeping only a stub of it.
C26_AsyncDrainsAsSyncDoes ==
    status = "Closed" =>
        \A warmOk, spawnOk \in BOOLEAN :
            LET a == run_async(Runner, Found.children, Found.channels, warmOk, spawnOk)
                s == run(Runner, Found.children, Found.channels, warmOk, spawnOk)
            IN  /\ a.res = s.res
                /\ a.res = "Ok" =>
                      /\ a.children[a.r.process].pc = s.children[s.r.process].pc
                      /\ a.children[a.r.process].pc = "read"
                      /\ a.r.reader.cloned

(***************************************************************************)
(* Claims about the drains, checked under SpecDelivery.                    *)
(***************************************************************************)
\* Exactly one of the record and the error is set.
OneFlavour(m) == (m.ledger_close_meta # None) # (m.err # "None")

\* The MetaResult m is what the drain makes of frame.
Publishes(m, frame) ==
    /\ OneFlavour(m)
    /\ IF frame = BadFrame THEN m.err = "ReadXdrNext"
       ELSE m.ledger_close_meta = frame

\* single_thread_read_ledger_meta_from_pipe on a new reader, for every stream.
SingleDrainPublishesAll ==
    \A out \in Streams :
        LET o == single_thread_read_ledger_meta_from_pipe(
                     NewReader("SingleThread", None).reader, out)
        IN  /\ o.res = "Ok"
            /\ o.read = Len(out)
            /\ Len(o.reader.cached) = Len(out)
            /\ \A i \in 1..Len(out) : Publishes(o.reader.cached[i], out[i])

\* C27: a drain publishes one MetaResult per item the decoder yields, an
\* error item as an error-flavoured MetaResult after which the drain goes on,
\* each MetaResult with exactly one of record and error set, and returns Ok
\* when the decoder is at the end of the stream: for the single-thread drain
\* on every stream, and for the draining threads of a channel whose receiver
\* is held.
C27_OneMetaResultPerItem ==
    /\ []SingleDrainPublishesAll
    /\ [](\A ch \in 1..Len(channels) :
            channels[ch].rx = "held" =>
                LET published == channels[ch].received \o channels[ch].queue
                    read == DecodedUpTo(ch, Len(children))
                    pending == Cardinality({c \in Invocations(ch) :
                                               children[c].pc = "send"})
                IN  /\ Len(published) + pending = Len(read)
                    /\ pending <= 1
                    /\ \A i \in 1..Len(published) : OneFlavour(published[i])
                    /\ \A c \in Invocations(ch) : children[c].pc # "panicked")
    /\ [][\A c \in 1..Len(children) :
            children[c].pc = "read" /\ children'[c].pc = "done" =>
                children[c].st # "running"]_vars

\* A draining thread has returned after an item that did not decode and an
\* item that did, and both were received, in that order.
C27_Witness ==
    \E c \in 1..Len(children) :
        /\ children[c].pc = "done"
        /\ children[c].stream = <<BadFrame, 1>>
        /\ children[c].chan # None
        /\ channels[children[c].chan].rx = "held"
        /\ channels[children[c].chan].received = MetaSeq(<<BadFrame, 1>>)

\* The receiver of the channel that child c's draining thread sends on has
\* been dropped.
ReceiverGone(c) ==
    IF children[c].chan = None THEN FALSE
    ELSE channels[children[c].chan].rx = "dropped"

\* The draining thread of child c has stopped on a failed send.
Stopped(c) == children[c].pc = "panicked"

\* C28: a draining thread that is about to send when the receiver has been
\* dropped does not get past that send: it stops there, and once stopped it
\* never reads another frame nor sends; nothing is queued on a channel whose
\* receiver is dropped.
C28_ProducerStopsWhenReceiverGone ==
    /\ [][\A c \in 1..Len(children) :
            /\ children[c].pc = "send" /\ ReceiverGone(c) =>
                  /\ children'[c].pc \in {"send", "panicked", "none"}
                  /\ Len(children'[c].stream) <= Len(children[c].stream)
            /\ Stopped(c) =>
                  /\ children'[c].pc \in {"panicked", "none"}
                  /\ Len(children'[c].stream) <= Len(children[c].stream)]_vars
    /\ [](\A ch \in 1..Len(channels) :
            channels[ch].rx = "dropped" => channels[ch].queue = <<>>)

\* The thread of a child that is still running has stopped on a send to a
\* dropped receiver, with the frame it had read in hand.
C28_Witness ==
    \E c \in 1..Len(children) :
        /\ Stopped(c)
        /\ ReceiverGone(c)
        /\ children[c].st = "running"
        /\ children[c].stream # <<>>

(***************************************************************************)
(* Claims about a staggered runner asked for a short range, checked under  *)
(* Spec.                                                                   *)
(***************************************************************************)
\* The ranges that a runner with staggered configured does not split.
ShortRanges ==
    {rg \in (0..MaxLedger) \X (0..MaxLedger) :
        /\ rg[1] <= rg[2]
        /\ stagger_times(rg[1], rg[2], config.staggered) <= 1}

\* What catchup_multi_thread leaves is one catchup of the whole range: one
\* more child, running and held by the runner, asked for from..to, on a
\* channel that no supervisor feeds, and close_runner_process kills it.
WholeCatchup(o, from, to) ==
    /\ o.res = "Ok"
    /\ Len(o.children) = Len(Found.children) + 1
    /\ SumUnspawned(o.channels) = SumUnspawned(Found.channels)
    /\ o.r.process = Len(o.children)
    /\ o.children[o.r.process].kind = "catchup"
    /\ o.children[o.r.process].st = "running"
    /\ Replayed(whole_catchup(from, to)) = from..to
    /\ \A rmOk \in BOOLEAN :
          LET c == close_runner_process(o.r, TRUE, rmOk)
          IN  /\ c.killed = o.r.process
              /\ KillChild(o.children, c.killed)[o.r.process].st = "killed"

\* The runner holds the child of a catchup while staggered is configured.
HoldsWhole ==
    /\ config.staggered # None
    /\ process # None
    /\ children[process].kind = "catchup"

\* C30: with staggered = S configured and floor((to - from) / S) <= 1, from
\* = to included, a catchup_multi_thread whose child can be spawned runs one
\* catchup that is not staggered: one child is spawned for the whole of
\* from..to, the runner holds it, and a close_runner_process that returns Ok
\* leaves it killed.
C30_ShortRangeIsOneCatchup ==
    /\ [](status = "Closed" /\ config.staggered # None =>
            \A rg \in ShortRanges :
                WholeCatchup(catchup_multi_thread(Runner, Found.children,
                                                  Found.channels,
                                                  rg[1], rg[2], TRUE, TRUE),
                             rg[1], rg[2]))
    /\ [][CloseOkStep /\ HoldsWhole => children'[process].st # "running"]_vars

\* A runner with staggered configured was asked for a short range and then
\* closed: the one child of the range is there, killed.
C30_Witness ==
    /\ config.staggered # None
    /\ started.op = "prepare_ledgers_multi_thread"
    /\ started.ok
    /\ status = "Closed"
    /\ process = None
    /\ SumUnspawned(channels) = 0
    /\ \E c \in 1..Len(children) :
          children[c].kind = "catchup" /\ children[c].st = "killed"
(***************************************************************************)
(* Claims about the order of the segments of a staggered catchup, checked  *)
(* under SpecDelivery.                                                     *)
(***************************************************************************)
\* The supervisor thread of channel ch gets past the join of the thread that
\* drains the child of its current segment.
SupervisorProceeds(ch) ==
    /\ ch \in StaggeredChannels
    /\ ~channels[ch].sup.inline
    /\ channels[ch].sup.st = "join"
    /\ channels'[ch].sup.st # "join"

\* The draining thread of child c returned from its loop: the iterator over
\* the child's stdout ended.  Nothing is known of a child that is no longer
\* kept.
ReachedEndOfStream(c) == children[c].pc \in {"done", "none"}

\* C31: in a staggered catchup with k >= 2 no more than k children are
\* spawned, a supervisor that is through has spawned k, one per segment in
\* ascending order, and the supervisor goes on to the next segment only
\* after the reader of the current one has reached the end of its stream.
C31_NextSegmentAfterEndOfStream ==
    /\ [](\A ch \in StaggeredChannels :
            /\ Len(channels[ch].sup.ranges) >= 2
            /\ channels[ch].sup.i <= Len(channels[ch].sup.ranges)
            /\ channels[ch].sup.st = "done" =>
                  channels[ch].sup.i = Len(channels[ch].sup.ranges))
    /\ [][\A ch \in 1..Len(channels) :
            SupervisorProceeds(ch) =>
                /\ ReachedEndOfStream(channels[ch].sup.cur)
                /\ channels'[ch].sup.st \in {"next", "done", "none"}
                /\ channels'[ch].sup.st = "next" =>
                      channels'[ch].sup.i = channels[ch].sup.i + 1]_vars

(***************************************************************************)
(* SpecRemoval: starts and closes with the `rm -rf buckets` process that   *)
(* remove_temp_data spawns followed as a process of its own.  The children *)
(* write nothing.                                                          *)
(***************************************************************************)
\* close_runner_process with the process of remove_temp_data: Command::spawn
\* returns once `rm` is started, and nothing waits for it.
close_runner_removing(r, cs, killOk, rmOk) ==
    LET o == close_runner_process(r, killOk, rmOk)
        killed == KillChild(cs, o.killed)
    IN  [r |-> o.r, res |-> o.res,
         children |-> IF o.res = "Ok"
                      THEN Append(killed, NewChild("rm", None, "none"))
                      ELSE killed]

CloseRemoving ==
    /\ caller = "alive"
    /\ \E killOk, rmOk \in BOOLEAN :
          LET o == close_runner_removing(Runner, children, killOk, rmOk)
          IN  /\ ~killOk => KillCanFail
              /\ Len(o.children) <= MaxRemoval
              /\ SetRunner(o.r)
              /\ SetWorld(o.children, channels)
    /\ UNCHANGED <<config, caller, started>>

NextRemoval ==
    \/ \E rg \in Ranges : PrepareMulti(rg[1], rg[2], MaxRemoval)
    \/ CloseRemoving
    \/ \E c \in 1..Len(children) : ChildExit(c)
    \/ \E c \in 1..Len(children) : ProducerEnd(c)
    \/ \E ch \in 1..Len(channels) : SupervisorSpawn(ch)
    \/ \E ch \in 1..Len(channels) : SupervisorJoin(ch)

SpecRemoval == InitLifecycle /\ [][NextRemoval]_vars

\* The `rm` processes that are running, and the validator processes that
\* are.
LiveRemovals == {c \in LiveChildren : children[c].kind = "rm"}

LiveValidators == {c \in LiveChildren : children[c].kind # "rm"}

\* C32: the removal of the buckets directory that a close started is over
\* when the close returns, so no `rm` runs while a validator spawned after it
\* runs, be it the child of a later start or of a staggered supervisor.
C32_RemovalNotConcurrent ==
    \A c \in LiveRemovals : \A d \in LiveValidators : d < c

(***************************************************************************)
(* Claims about the Range type, checked under SpecRanges on the ranges     *)
(* that were asked for.                                                    *)
(***************************************************************************)
\* Range::Bounded(BoundedRange(from, to))
Bounded(from, to) == [lo |-> from, hi |-> to]

\* Range::bounded: (bounded_range.0, bounded_range.1)
bounded(range) == <<range.lo, range.hi>>

\* impl From<Range> for std::ops::Range<u32>: bounded_range.0..bounded_range.1,
\* as the numbers a `for` over it goes through.
ops_range_from(range) == {n \in range.lo..range.hi : n < range.hi}

\* C33: Range::Bounded(from, to) is the closed range from..to: bounded()
\* gives (from, to), and the integer range made of it goes through the
\* to - from + 1 numbers from, ..., to, the ledgers the catchup is asked for.
C33_RangeIsClosed ==
    \A ch \in StaggeredChannels :
        LET from == channels[ch].sup.asked[1]
            to == channels[ch].sup.asked[2]
            range == Bounded(from, to)
        IN  /\ bounded(range) = <<from, to>>
            /\ ops_range_from(range) = from..to
            /\ Cardinality(ops_range_from(range)) = to - from + 1
            /\ ops_range_from(range) = Replayed(whole_catchup(from, to))

(***************************************************************************)
(* Claims about the command line of the validator, checked under Spec.     *)
(* A command is the record of what Command is given: the arguments of the  *)
(* call site, then --conf and --ll, and the working directory.             *)
(***************************************************************************)
\* Both run_core_cli: each argument of the call site, then
\* "--conf {context_path}/stellar-core.cfg" and "--ll INFO"; current_dir is
\* the context path.
core_cli_command(args) ==
    [args |-> args, conf |-> "--conf {context_path}/stellar-core.cfg",
     ll |-> "--ll INFO", current_dir |-> "context_path"]

\* format!("{}/{}", to, count)
LedgerCount(to, count) == [dest |-> "ledger", to |-> to, count |-> count]

\* format!("current/{}", count)
CurrentCount(count) == [dest |-> "current", to |-> 0, count |-> count]

\* ["catchup", "--in-memory", &range, "--metadata-output-stream fd:1"]
CatchupInMemory(range) ==
    [sub |-> "catchup", in_memory |-> TRUE, range |-> range,
     out |-> "--metadata-output-stream fd:1"]

\* ["catchup", &range, "--metadata-output-stream fd:1"]
CatchupOnDisk(range) ==
    [sub |-> "catchup", in_memory |-> FALSE, range |-> range,
     out |-> "--metadata-output-stream fd:1"]

\* The command of each call site.
single_thread_command(from, to) ==
    core_cli_command(CatchupInMemory(LedgerCount(to, to - from + 1)))

multi_thread_command(from, to) ==
    core_cli_command(CatchupInMemory(LedgerCount(to, to - from + 1)))

segment_command(range) ==
    core_cli_command(CatchupInMemory(
        LedgerCount(segment_catchup(range).to, segment_catchup(range).count)))

async_short_command(from, to) ==
    core_cli_command(CatchupOnDisk(LedgerCount(to, to - from + 1)))

async_segment_command(range) ==
    core_cli_command(CatchupOnDisk(
        LedgerCount(segment_catchup(range).to, segment_catchup(range).count)))

async_command(from, to) ==
    core_cli_command(CatchupOnDisk(CurrentCount(to - from + 1)))

\* The command of the child that the supervisor or task of channel ch has
\* spawned last.
SupervisorCommand(ch) ==
    LET sup == channels[ch].sup
    IN  IF ~sup.inline THEN segment_command(sup.ranges[sup.i + 1])
        ELSE IF config.staggered = None
        THEN async_command(sup.asked[1], sup.asked[2])
        ELSE async_segment_command(sup.ranges[sup.i + 1])

\* The command of the catchup that the start last called spawns itself for
\* the range from..to.
StartCommand(op, from, to) ==
    IF op = "prepare_ledgers_single_thread" THEN single_thread_command(from, to)
    ELSE IF op = "prepare_ledgers_multi_thread" THEN multi_thread_command(from, to)
    ELSE async_short_command(from, to)

\* The commands that are prescribed.
OfflineCatchup(from, to) ==
    [args |-> [sub |-> "catchup", in_memory |-> TRUE,
               range |-> [dest |-> "ledger", to |-> to, count |-> to - from + 1],
               out |-> "--metadata-output-stream fd:1"],
     conf |-> "--conf {context_path}/stellar-core.cfg", ll |-> "--ll INFO",
     current_dir |-> "context_path"]

StaggeredSegment(start, end) ==
    [args |-> [sub |-> "catchup", in_memory |-> FALSE,
               range |-> [dest |-> "ledger", to |-> end, count |-> end - start + 1],
               out |-> "--metadata-output-stream fd:1"],
     conf |-> "--conf {context_path}/stellar-core.cfg", ll |-> "--ll INFO",
     current_dir |-> "context_path"]

\* C34: the validator of every offline catchup of from..to, single- or
\* multi-thread, synchronous or async, is run as `catchup --in-memory
\* {to}/{to-from+1} --metadata-output-stream fd:1`, the one of every
\* staggered segment as `catchup {end}/{end-start+1}
\* --metadata-output-stream fd:1`, each followed by --conf
\* {context}/stellar-core.cfg and --ll INFO, in the context path.
C34_CommandsAsPrescribed ==
    /\ \A ch \in 1..Len(channels) :
          LET sup == channels[ch].sup
          IN  sup.st = "join" =>
                  SupervisorCommand(ch) =
                      IF config.staggered = None
                      THEN OfflineCatchup(sup.asked[1], sup.asked[2])
                      ELSE StaggeredSegment(sup.ranges[sup.i + 1].start,
                                            sup.ranges[sup.i + 1].end)
    /\ (/\ started.op \in {"prepare_ledgers_single_thread",
                           "prepare_ledgers_multi_thread", "async_prepare_ledgers"}
        /\ started.ok
        /\ process # None) =>
          \A from, to \in Ledgers :
              from <= to =>
                  StartCommand(started.op, from, to) = OfflineCatchup(from, to)

(***************************************************************************)
(* Claims about what changes the prepared set, checked under SpecFacade.   *)
(***************************************************************************)
\* Called in the current state, whatever the environment does: a close, a
\* multi-thread catchup, an online run and their async forms leave the
\* prepared set as it is.
OthersKeepPrepared ==
    /\ \A killOk, rmOk \in BOOLEAN :
          close_runner_process(Runner, killOk, rmOk).r.prepared = prepared
    /\ \A rg \in Ranges, overflowChecks, spawnOk \in BOOLEAN :
          /\ catchup_multi_thread(Runner, Found.children, Found.channels, rg[1],
                                  rg[2], overflowChecks, spawnOk).r.prepared = prepared
          /\ async_catchup_multi_thread(Runner, Found.children, Found.channels,
                                        rg[1], rg[2], overflowChecks,
                                        spawnOk).r.prepared = prepared
    /\ \A warmOk, spawnOk \in BOOLEAN :
          (warmOk \/ process # None) =>
              /\ run(Runner, Found.children, Found.channels, warmOk,
                     spawnOk).r.prepared = prepared
              /\ run_async(Runner, Found.children, Found.channels, warmOk,
                           spawnOk).r.prepared = prepared

\* A catchup_single_thread called in the current state changes the prepared
\* set only by loading what its reader has buffered; one that is refused or
\* cannot spawn its child leaves it.
SingleChangesByLoading ==
    \A rg \in Ranges, out \in MetaStreams :
        \A spawnOk, killOk, rmOk \in BOOLEAN :
            LET o == catchup_single_thread(Runner, Found.children, rg[1], rg[2],
                                           TRUE, spawnOk, out, killOk, rmOk)
            IN  /\ o.res \in {"AlreadyRunning", "CliExec", "panic"} =>
                      o.r.prepared = prepared
                /\ o.r.prepared # prepared =>
                      o.r.prepared = [some |-> TRUE, v |-> MetaSeq(out)]

\* C35: the prepared set changes only when a catchup_single_thread loads it:
\* get_ledger, read_prepared, close_runner_process, a start that is refused,
\* a multi-thread catchup and an online run leave it as it is, and a lookup
\* answers from it.
C35_PreparedChangesOnLoadOnly ==
    /\ [](OthersKeepPrepared /\ SingleChangesByLoading)
    /\ [][prepared' # prepared =>
            /\ started'.op = "prepare_ledgers_single_thread"
            /\ ~started'.refused
            /\ prepared'.some]_vars
    /\ [][prepared' = prepared =>
            \A sequence \in Sequences :
                get_ledger(Runner, sequence)' = get_ledger(Runner, sequence)]_vars

\* A multi-thread catchup runs after a single-thread preparation and a
\* lookup still answers from what that preparation loaded.
C35_Witness ==
    /\ started.op = "prepare_ledgers_multi_thread"
    /\ started.ok
    /\ status = "RunningOffline"
    /\ prepared.some
    /\ \E sequence \in Sequences : get_ledger(Runner, sequence).res = "Ok"

(***************************************************************************)
(* Claims about the arithmetic of the segments, checked under SpecRanges.  *)
(***************************************************************************)
\* The ledgers of the range asked on channel ch that no segment asks for.
Unrequested(ch) ==
    {l \in channels[ch].sup.asked[1]..channels[ch].sup.asked[2] :
        SegmentsWith(ch, l) = {}}

\* C36: for from <= to and S with k >= 2, the end from + (i + 1) * step - 1
\* of every segment before the clamp is at most to, so that min(.., to)
\* changes no segment; the ledgers of from..to that no segment asks for are
\* the last (to - from + 1) mod k ones, fewer than k.
C36_ClampNeverCuts ==
    \A ch \in StaggeredChannels :
        LET rs == channels[ch].sup.ranges
            from == channels[ch].sup.asked[1]
            to == channels[ch].sup.asked[2]
            k == (to - from) \div config.staggered
            step == (to - from + 1) \div k
            rest == (to - from + 1) % k
        IN  /\ from <= to
            /\ k >= 2
            /\ \A i \in 0..(k - 1) :
                  /\ from + (i + 1) * step - 1 <= to
                  /\ rs[i + 1].end = from + (i + 1) * step - 1
            /\ Unrequested(ch) = (to - rest + 1)..to
            /\ Cardinality(Unrequested(ch)) = rest
            /\ rest < k

\* A staggered catchup of segments of more than one ledger is through, and
\* ledgers at the end of its range were asked of no child.
C36_Witness ==
    \E ch \in StaggeredChannels :
        /\ channels[ch].sup.st = "done"
        /\ Unrequested(ch) # {}
        /\ \A n \in 1..Len(channels[ch].sup.ranges) :
              channels[ch].sup.ranges[n].end > channels[ch].sup.ranges[n].start

(***************************************************************************)
(* Claims about a start whose validator cannot be spawned, checked under   *)
(* Spec.                                                                   *)
(***************************************************************************)
\* The start returned CliExec and left a runner that is Closed, holds no
\* child and no reader, and takes another start.
FailedCleanly(o, cs) ==
    o.res = "CliExec" =>
        /\ o.r.status = "Closed"
        /\ o.r.process = None
        /\ o.r.reader = NoReader
        /\ \A rg \in Ranges :
              catchup_single_thread(o.r, cs, rg[1], rg[2], TRUE, TRUE, <<>>,
                                    TRUE, TRUE).res # "AlreadyRunning"

\* C37: a start that fails with CliExec because the validator cannot be
\* spawned leaves the runner Closed, with no child and no reader, so that
\* the facade can be started again without a close in between.
C37_SpawnFailureLeavesClosed ==
    \A rg \in Ranges :
        LET single == catchup_single_thread(Runner, Found.children, rg[1], rg[2],
                                            TRUE, FALSE, <<>>, TRUE, TRUE)
            multi == catchup_multi_thread(Runner, Found.children, Found.channels,
                                          rg[1], rg[2], TRUE, FALSE)
        IN  /\ FailedCleanly(single, single.children)
            /\ FailedCleanly(multi, multi.children)

(***************************************************************************)
(* Claims about a close that fails, checked under Spec.                    *)
(***************************************************************************)
\* C38: close_runner does all or nothing: when it returns ProcessNotFound,
\* or Process for a kill or a removal that failed, the status, the child
\* held and the reader are as they were before the call, and no child was
\* killed.
C38_FailedCloseChangesNothing ==
    \A killOk, rmOk \in BOOLEAN :
        LET o == close_runner(Runner, killOk, rmOk)
        IN  (~killOk => KillCanFail) /\ o.res \in {"ProcessNotFound", "Process"} =>
                /\ o.r.status = status
                /\ o.r.process = process
                /\ o.r.reader = ledger_buffer_reader
                /\ o.killed = None

(***************************************************************************)
(* Claims about a staggered catchup whose receiver is dropped, checked     *)
(* under SpecDelivery.                                                     *)
(***************************************************************************)
\* The supervisor of channel ch spawns the child of its next segment.
SpawnsSegment(ch) ==
    /\ channels[ch].sup.st = "next"
    /\ channels'[ch].sup.st = "join"
    /\ Len(children') = Len(children) + 1

\* The draining thread of a segment of channel ch has stopped on a send that
\* failed.
ProducerAborted(ch) ==
    \E c \in 1..Len(children) : children[c].chan = ch /\ Stopped(c)

\* C39: in a staggered catchup, once the consumer has dropped the receiver
\* and the producer of a segment has stopped on the send that failed, the
\* supervisor spawns the child of no further segment.
C39_NoSegmentAfterReceiverGone ==
    [][\A ch \in 1..Len(channels) :
          channels[ch].rx = "dropped" /\ ProducerAborted(ch) => ~SpawnsSegment(ch)]_vars

(***************************************************************************)
(* SpecWarmup: run, with its wait for the warm-up child as a place of the  *)
(* caller.  The stdout of the warm-up child is a pipe that nobody reads:   *)
(* stream is what the child has written to it, todo what it has yet to     *)
(* write before it exits; a write blocks while the pipe is full.  The      *)
(* processes and the caller are scheduled fairly.                          *)
(***************************************************************************)
\* The child of run_core_cli(&["catchup", "current/2"]): stdout is piped.
WarmupChild(output) ==
    [kind |-> "warmup", st |-> "running", stream |-> <<>>, chan |-> None,
     pc |-> "none", todo |-> output]

\* run up to the wait: the status check, the status, the spawn of the
\* warm-up whose error is dropped, the unwrap of self.process.
RunBegin ==
    /\ caller = "alive"
    /\ IF status # "Closed"
       THEN /\ started' = [started EXCEPT !.refused = TRUE]
            /\ UNCHANGED <<config, runnerVars, children, channels, caller>>
       ELSE \E warmOk \in BOOLEAN, output \in 0..MaxOutput :
               LET r1 == [Runner EXCEPT !.status = "RunningOnline"]
                   warm == run_core_cli(r1, Found.children, WarmupChild(output),
                                        warmOk)
               IN  /\ ~warmOk => output = 0
                   /\ Len(warm.children) + 1 <= MaxWarmup
                   /\ SetRunner(warm.r)
                   /\ SetWorld(warm.children, Found.channels)
                   /\ caller' = IF warm.r.process = None THEN "panicked"
                                ELSE "waiting"
                   /\ started' = [op |-> "start_online_no_range", ok |-> FALSE,
                                  refused |-> FALSE]
                   /\ UNCHANGED config

\* The warm-up child writes a unit of output to its stdout.
WarmupWrite(c) ==
    /\ children[c].kind = "warmup"
    /\ children[c].st = "running"
    /\ children[c].todo > 0
    /\ Len(children[c].stream) < PipeCapacity
    /\ children' = [children EXCEPT ![c].stream = Append(@, 1), ![c].todo = @ - 1]
    /\ UNCHANGED <<config, runnerVars, channels, caller, started>>

\* The warm-up child exits once it has written all it had to.
WarmupExit(c) ==
    /\ children[c].kind = "warmup"
    /\ children[c].st = "running"
    /\ children[c].todo = 0
    /\ children' = [children EXCEPT ![c] = GoneChild]
    /\ UNCHANGED <<config, runnerVars, channels, caller, started>>

\* run from the return of wait() on: the spawn of `run` and the transmitter.
RunEnd ==
    /\ caller = "waiting"
    /\ children[process].st # "running"
    /\ \E spawnOk \in BOOLEAN :
          LET spawned == run_core_cli(Runner, children, NewChild("run", None, "none"),
                                      spawnOk)
              o == IF spawned.res # "Ok"
                   THEN [r |-> Runner, children |-> children, channels |-> channels,
                         res |-> spawned.res]
                   ELSE start_and_transmitter(spawned.r, spawned.children, channels,
                                              spawned.r.process,
                                              config.bounded_buffer_size)
          IN  /\ SetRunner(o.r)
              /\ SetWorld(o.children, o.channels)
              /\ started' = [started EXCEPT !.ok = (o.res = "Ok")]
    /\ caller' = "alive"
    /\ UNCHANGED config

NextWarmup ==
    \/ RunBegin
    \/ \E c \in 1..Len(children) : WarmupWrite(c)
    \/ \E c \in 1..Len(children) : WarmupExit(c)
    \/ RunEnd
    \/ Close
    \/ \E c \in 1..Len(children) : ChildExit(c)
    \/ \E c \in 1..Len(children) : ProducerEnd(c)
    \/ \E ch \in 1..Len(channels) : DropReceiver(ch)

FairWarmup ==
    /\ \A c \in 1..MaxWarmup : WF_vars(c <= Len(children) /\ WarmupWrite(c))
    /\ \A c \in 1..MaxWarmup : WF_vars(c <= Len(children) /\ WarmupExit(c))
    /\ WF_vars(RunEnd)

SpecWarmup == InitLifecycle /\ [][NextWarmup]_vars /\ FairWarmup

\* run waits for the warm-up child it spawned.
WaitsForWarmup ==
    /\ caller = "waiting"
    /\ children[process].kind = "warmup"

\* C40: run does not deadlock on the warm-up: the child it waits for is not
\* left blocked on a write to its stdout, and a run that waits for a warm-up
\* child that exits once its output is taken returns.
C40_RunReturnsFromWarmup == WaitsForWarmup ~> caller = "alive"

====
